---- MODULE Spec2Model ----
(***************************************************************************)
(* A model of the Terraforming Mars rules engine: the Tharsis board and    *)
(* its tile placement (board.rs), the player economy and the GameOperation *)
(* interpreter (game.rs), and the generation search (sim.rs).              *)
(*                                                                         *)
(* A call that panics (a failed assert!, unwrap, unimplemented!) sets      *)
(* `aborted`; the program has stopped there and no later call happens.     *)
(* `last_call` holds the most recent call and what it returned.            *)
(***************************************************************************)
EXTENDS Integers, Sequences, FiniteSets, TLC

VARIABLES
    \* MarsBoard (board.rs)
    cities, oceans, greeneries, special_tiles, oxygen, temperature,
    \* Game (game.rs 469-474): players is PlayerId -> PlayerState
    players, draw_deck, discard_pile,
    \* a second Game, equal to the first at the start, on which the same
    \* operations are executed: the replay of the operation log
    replay,
    \* control
    aborted, last_call

boardVars == <<cities, oceans, greeneries, special_tiles, oxygen, temperature>>
gameVars == <<players, draw_deck, discard_pile>>
vars == <<boardVars, gameVars, replay, aborted, last_call>>

(***************************************************************************)
(* Bounds of the model.                                                    *)
(***************************************************************************)
\* Tiles placed on the board before the run is cut off.
MaxTiles == 2
\* Length of the restriction lists handed to can_place_city.
MaxRestrictions == 2
\* Largest balance a ChangeResources may produce, and largest balance at which
\* advance_generation is still called.
MaxBalance == 2
\* Largest production a ChangeProduction may produce.
MaxProduction == 1
\* How far RaiseTerraformRating raises the rating above its starting value.
MaxRatingGain == 1
\* Longest list of offered cards in SpecSearch, the ten-card list aside.
MaxSearchOffered == 1
\* Largest number of effects AddEffect gives a player in a run of SpecEffects.
MaxEffects == 2
\* Largest number of RaiseTemperature and of RaiseOxygen calls in a run of
\* SpecProgress.
MaxRaises == 3
\* Number of cards in the draw deck, the discard pile and the hands together.
MaxCards == 3
\* Largest count handed to DrawCards and longest list handed to DiscardCards.
MaxDraw == 2
\* Largest megacredit balance a player is built with for purchase_cards.
MaxPurse == 7
\* Longest list of cards offered to get_possible_generation_plays.
MaxOffered == 3
\* Largest quantity a ChangeCardResource may produce on a card.
MaxQuantity == 1
\* Largest amount, up or down, handed to ChangeCardResource.
MaxDelta == 2
\* Longest list of played cards whose tags are counted.
MaxPlayed == 3
\* How far beyond the bounds of the board coordinates are taken.
GeometryMargin == 2

(***************************************************************************)
(* Generic helpers for maps (HashMap / BTreeMap as functions).             *)
(***************************************************************************)
MapInsert(m, k, v) == [x \in (DOMAIN m) \cup {k} |-> IF x = k THEN v ELSE m[x]]

EmptyMap == [x \in {} |-> 0]

SeqsUpTo(S, n) == UNION {[1..k -> S] : k \in 0..n}

(***************************************************************************)
(* Coordinates (board.rs 21-91).                                           *)
(***************************************************************************)
BOUNDS_MIN_X == 0
BOUNDS_MAX_X == 8
BOUNDS_MIN_Y == -8
BOUNDS_MAX_Y == 0
BOUNDS_MIN_Z == -4
BOUNDS_MAX_Z == 4

NEIGHBORS_DX_DY == << <<1, -1>>, <<0, -1>>, <<-1, 0>>, <<-1, 1>>, <<0, 1>>, <<1, 0>> >>

get_z(c) == -(c[1] + c[2])

is_in_bounds(c) ==
    LET within_x == c[1] >= BOUNDS_MIN_X /\ c[1] <= BOUNDS_MAX_X
        within_y == c[2] >= BOUNDS_MIN_Y /\ c[2] <= BOUNDS_MAX_Y
        z == get_z(c)
        within_z == z >= BOUNDS_MIN_Z /\ z <= BOUNDS_MAX_Z
    IN  within_x /\ within_y /\ within_z

\* Coordinates::neighbors_within_bounds: the six offsets in order, filtered.
coordinate_neighbors_within_bounds(c) ==
    LET moved == [i \in 1..Len(NEIGHBORS_DX_DY) |->
                    <<c[1] + NEIGHBORS_DX_DY[i][1], c[2] + NEIGHBORS_DX_DY[i][2]>>]
    IN  SelectSeq(moved, is_in_bounds)

(***************************************************************************)
(* TileLocation (board.rs 93-111).  Both variants are records of one shape *)
(* so that any two locations can be compared.                              *)
(***************************************************************************)
OnMars(c) == [kind |-> "OnMars", c |-> c, s |-> "None"]
OffMars(s) == [kind |-> "OffMars", c |-> <<0, 0>>, s |-> s]

\* Variant of neighbors_within_bounds that takes the neighbors of the
\* coordinates whatever the kind of the location.
neighbors_of_any_location(location) ==
    LET cs == coordinate_neighbors_within_bounds(location.c)
    IN  [i \in 1..Len(cs) |-> OnMars(cs[i])]

neighbors_within_bounds(location) ==
    IF location.kind = "OnMars"
    THEN LET cs == coordinate_neighbors_within_bounds(location.c)
         IN  [i \in 1..Len(cs) |-> OnMars(cs[i])]
    ELSE <<>>

(***************************************************************************)
(* BoardSpace and the Tharsis board (board.rs 424-725).                    *)
(***************************************************************************)
Designation(d, s) == [d |-> d, s |-> s]
GainResource(resource, amount) == [impact |-> "GainResource", resource |-> resource, amount |-> amount]
DrawCard(amount) == [impact |-> "DrawCard", resource |-> "None", amount |-> amount]
BoardSpace(location, designations, placement_bonus) ==
    [location |-> location, designations |-> designations, placement_bonus |-> placement_bonus]

is_land(board_space) ==
    \E i \in DOMAIN board_space.designations : board_space.designations[i].d = "Land"

is_reserved_for_ocean(board_space) ==
    \E i \in DOMAIN board_space.designations : board_space.designations[i].d = "ReservedForOcean"

\* make_standard_non_mars_board_spaces and the spaces of make_base_game_board.
BaseGameBoardSpaces ==
    {
      BoardSpace(OffMars("PhobosSpaceHaven"), <<Designation("NonMarsTile", "None"), Designation("Special", "PhobosSpaceHaven")>>, <<>>),
      BoardSpace(OffMars("GanymedeColony"), <<Designation("NonMarsTile", "None"), Designation("Special", "GanymedeColony")>>, <<>>),
      BoardSpace(OnMars(<<0, 0>>), <<Designation("Land", "None"), Designation("Special", "VolcanicArea")>>, <<GainResource("Plants", 2)>>),
      BoardSpace(OnMars(<<1, 0>>), <<Designation("Land", "None"), Designation("Special", "VolcanicArea")>>, <<GainResource("Plants", 1), GainResource("Titanium", 1)>>),
      BoardSpace(OnMars(<<2, 0>>), <<Designation("Land", "None"), Designation("Special", "VolcanicArea")>>, <<DrawCard(1)>>),
      BoardSpace(OnMars(<<3, 0>>), <<Designation("Land", "None")>>, <<>>),
      BoardSpace(OnMars(<<4, 0>>), <<Designation("Land", "None")>>, <<GainResource("Steel", 2)>>),
      BoardSpace(OnMars(<<0, -1>>), <<Designation("Land", "None")>>, <<GainResource("Plants", 1)>>),
      BoardSpace(OnMars(<<1, -1>>), <<Designation("Land", "None")>>, <<GainResource("Plants", 2)>>),
      BoardSpace(OnMars(<<2, -1>>), <<Designation("Land", "None")>>, <<GainResource("Plants", 1)>>),
      BoardSpace(OnMars(<<3, -1>>), <<Designation("Land", "None")>>, <<>>),
      BoardSpace(OnMars(<<4, -1>>), <<Designation("Land", "None"), Designation("Special", "VolcanicArea")>>, <<GainResource("Steel", 1)>>),
      BoardSpace(OnMars(<<5, -1>>), <<Designation("ReservedForOcean", "None")>>, <<GainResource("Steel", 2)>>),
      BoardSpace(OnMars(<<0, -2>>), <<Designation("Land", "None")>>, <<>>),
      BoardSpace(OnMars(<<1, -2>>), <<Designation("Land", "None")>>, <<GainResource("Plants", 2)>>),
      BoardSpace(OnMars(<<2, -2>>), <<Designation("Land", "None"), Designation("Special", "NoctisCity")>>, <<GainResource("Plants", 2)>>),
      BoardSpace(OnMars(<<3, -2>>), <<Designation("Land", "None")>>, <<GainResource("Plants", 1)>>),
      BoardSpace(OnMars(<<4, -2>>), <<Designation("Land", "None")>>, <<>>),
      BoardSpace(OnMars(<<5, -2>>), <<Designation("Land", "None")>>, <<>>),
      BoardSpace(OnMars(<<6, -2>>), <<Designation("Land", "None")>>, <<>>),
      BoardSpace(OnMars(<<0, -3>>), <<Designation("Land", "None")>>, <<GainResource("Steel", 2)>>),
      BoardSpace(OnMars(<<1, -3>>), <<Designation("Land", "None")>>, <<>>),
      BoardSpace(OnMars(<<2, -3>>), <<Designation("Land", "None")>>, <<GainResource("Plants", 1)>>),
      BoardSpace(OnMars(<<3, -3>>), <<Designation("ReservedForOcean", "None")>>, <<GainResource("Plants", 2)>>),
      BoardSpace(OnMars(<<4, -3>>), <<Designation("Land", "None")>>, <<GainResource("Plants", 1)>>),
      BoardSpace(OnMars(<<5, -3>>), <<Designation("Land", "None")>>, <<>>),
      BoardSpace(OnMars(<<6, -3>>), <<Designation("Land", "None")>>, <<>>),
      BoardSpace(OnMars(<<7, -3>>), <<Designation("ReservedForOcean", "None")>>, <<DrawCard(1)>>),
      BoardSpace(OnMars(<<0, -4>>), <<Designation("Land", "None")>>, <<GainResource("Steel", 1)>>),
      BoardSpace(OnMars(<<1, -4>>), <<Designation("Land", "None")>>, <<>>),
      BoardSpace(OnMars(<<2, -4>>), <<Designation("Land", "None")>>, <<>>),
      BoardSpace(OnMars(<<3, -4>>), <<Designation("Land", "None")>>, <<GainResource("Plants", 1)>>),
      BoardSpace(OnMars(<<4, -4>>), <<Designation("ReservedForOcean", "None")>>, <<GainResource("Plants", 2)>>),
      BoardSpace(OnMars(<<5, -4>>), <<Designation("Land", "None")>>, <<GainResource("Plants", 2)>>),
      BoardSpace(OnMars(<<6, -4>>), <<Designation("Land", "None")>>, <<>>),
      BoardSpace(OnMars(<<7, -4>>), <<Designation("Land", "None")>>, <<>>),
      BoardSpace(OnMars(<<8, -4>>), <<Designation("ReservedForOcean", "None")>>, <<>>),
      BoardSpace(OnMars(<<1, -5>>), <<Designation("Land", "None")>>, <<GainResource("Steel", 2)>>),
      BoardSpace(OnMars(<<2, -5>>), <<Designation("Land", "None")>>, <<>>),
      BoardSpace(OnMars(<<3, -5>>), <<Designation("Land", "None")>>, <<>>),
      BoardSpace(OnMars(<<4, -5>>), <<Designation("Land", "None")>>, <<GainResource("Plants", 1)>>),
      BoardSpace(OnMars(<<5, -5>>), <<Designation("ReservedForOcean", "None")>>, <<GainResource("Plants", 2)>>),
      BoardSpace(OnMars(<<6, -5>>), <<Designation("Land", "None")>>, <<GainResource("Plants", 1)>>),
      BoardSpace(OnMars(<<7, -5>>), <<Designation("Land", "None")>>, <<>>),
      BoardSpace(OnMars(<<8, -5>>), <<Designation("ReservedForOcean", "None")>>, <<DrawCard(2)>>),
      BoardSpace(OnMars(<<2, -6>>), <<Designation("Land", "None")>>, <<>>),
      BoardSpace(OnMars(<<3, -6>>), <<Designation("Land", "None")>>, <<DrawCard(1)>>),
      BoardSpace(OnMars(<<4, -6>>), <<Designation("Land", "None")>>, <<>>),
      BoardSpace(OnMars(<<5, -6>>), <<Designation("ReservedForOcean", "None")>>, <<GainResource("Plants", 1)>>),
      BoardSpace(OnMars(<<6, -6>>), <<Designation("Land", "None")>>, <<GainResource("Plants", 2)>>),
      BoardSpace(OnMars(<<7, -6>>), <<Designation("Land", "None")>>, <<GainResource("Plants", 1)>>),
      BoardSpace(OnMars(<<8, -6>>), <<Designation("Land", "None")>>, <<GainResource("Steel", 1)>>),
      BoardSpace(OnMars(<<3, -7>>), <<Designation("Land", "None")>>, <<>>),
      BoardSpace(OnMars(<<4, -7>>), <<Designation("Land", "None")>>, <<>>),
      BoardSpace(OnMars(<<5, -7>>), <<Designation("Land", "None")>>, <<GainResource("Plants", 1)>>),
      BoardSpace(OnMars(<<6, -7>>), <<Designation("ReservedForOcean", "None")>>, <<GainResource("Plants", 1)>>),
      BoardSpace(OnMars(<<7, -7>>), <<Designation("Land", "None")>>, <<GainResource("Plants", 2)>>),
      BoardSpace(OnMars(<<8, -7>>), <<Designation("ReservedForOcean", "None")>>, <<GainResource("Plants", 2)>>),
      BoardSpace(OnMars(<<4, -8>>), <<Designation("ReservedForOcean", "None")>>, <<GainResource("Titanium", 2)>>),
      BoardSpace(OnMars(<<5, -8>>), <<Designation("Land", "None")>>, <<GainResource("Titanium", 1)>>),
      BoardSpace(OnMars(<<6, -8>>), <<Designation("Land", "None")>>, <<>>),
      BoardSpace(OnMars(<<7, -8>>), <<Designation("ReservedForOcean", "None")>>, <<GainResource("Plants", 1)>>),
      BoardSpace(OnMars(<<8, -8>>), <<Designation("Land", "None")>>, <<GainResource("Plants", 2)>>)    }

\* MarsBoard.spaces: location -> BoardSpace, as make_base_game_board collects it.
spaces == [l \in {sp.location : sp \in BaseGameBoardSpaces} |->
             CHOOSE sp \in BaseGameBoardSpaces : sp.location = l]

(***************************************************************************)
(* Players, city kinds and special tiles the operations are called with.   *)
(***************************************************************************)
PlayerIds == {1, 2}
CityKinds == {"RegularCity", "Capital"}
SpecialTiles == {"NuclearZone"}

\* The patch of Tharsis that tiles are placed on: Tharsis Tholus, its two
\* northern neighbours, and Ganymede Colony off Mars.
PlacementCoordinates == {<<4, -1>>, <<4, 0>>, <<5, -1>>}
PlacementLocations == {OnMars(c) : c \in PlacementCoordinates} \cup {OffMars("GanymedeColony")}

(***************************************************************************)
(* LocationRestriction (card.rs 149-168).                                  *)
(***************************************************************************)
Restriction(r) == [r |-> r, s |-> "None"]
AtSpecialLocation(s) == [r |-> "AtSpecialLocation", s |-> s]

LocationRestrictions ==
    {Restriction(r) : r \in {"LandTile", "ReservedForOcean", "AdjacentToOwnedTile",
                             "AdjacentToOwnedTileIfAble", "NotNextToAnyOtherTile",
                             "NotNextToACity", "NextToACity", "NextToAtLeastTwoCities",
                             "NextToAGreenery", "OnSteelOrTitaniumPlacementBonus"}}
    \cup {AtSpecialLocation(s) : s \in {"VolcanicArea", "GanymedeColony"}}

(***************************************************************************)
(* MarsBoard queries (board.rs 191-253).  The operators take the four      *)
(* occupancy indexes as a record so that they apply to any board value.    *)
(***************************************************************************)
Board == [cities |-> cities, oceans |-> oceans, greeneries |-> greeneries,
          special_tiles |-> special_tiles, oxygen |-> oxygen, temperature |-> temperature]

TileStatus(status, location, kind, owner) ==
    [status |-> status, location |-> location, kind |-> kind, owner |-> owner]

\* Variant of get_tile_status that looks into the oceans index before the
\* cities index.
get_tile_status_ocean_first(board, location) ==
    IF location.kind = "OnMars" /\ location.c \in board.oceans
    THEN TileStatus("Ocean", location, "None", 0)
    ELSE IF location \in DOMAIN board.cities
    THEN TileStatus("City", location, board.cities[location].kind, board.cities[location].owner)
    ELSE IF location.kind = "OffMars"
    THEN TileStatus("Empty", location, "None", 0)
    ELSE IF location.c \in DOMAIN board.greeneries
    THEN TileStatus("Greenery", location, "None", board.greeneries[location.c])
    ELSE IF location.c \in DOMAIN board.special_tiles
    THEN TileStatus("SpecialTile", location, board.special_tiles[location.c].kind,
                    board.special_tiles[location.c].owner)
    ELSE TileStatus("Empty", location, "None", 0)

get_tile_status(board, location) ==
    IF location \in DOMAIN board.cities
    THEN TileStatus("City", location, board.cities[location].kind, board.cities[location].owner)
    ELSE IF location.kind = "OffMars"
    THEN TileStatus("Empty", location, "None", 0)
    ELSE IF location.c \in board.oceans
    THEN TileStatus("Ocean", location, "None", 0)
    ELSE IF location.c \in DOMAIN board.greeneries
    THEN TileStatus("Greenery", location, "None", board.greeneries[location.c])
    ELSE IF location.c \in DOMAIN board.special_tiles
    THEN TileStatus("SpecialTile", location, board.special_tiles[location.c].kind,
                    board.special_tiles[location.c].owner)
    ELSE TileStatus("Empty", location, "None", 0)

get_neighbor_tile_status(board, location) ==
    LET ns == neighbors_within_bounds(location)
    IN  [i \in 1..Len(ns) |-> get_tile_status(board, ns[i])]

\* How many entries of a sequence satisfy a test (Iterator::filter(..).count()).
CountWhere(seq, Test(_)) == Cardinality({i \in DOMAIN seq : Test(seq[i])})

(***************************************************************************)
(* MarsBoard::can_place_city (board.rs 298-421).                           *)
(***************************************************************************)
adjacent_tiles_of_any_kind(board, location) ==
    LET NotEmpty(st) == st.status # "Empty"
    IN  CountWhere(get_neighbor_tile_status(board, location), NotEmpty)

(***************************************************************************)
(* MarsBoard::count_adjacent_oceans and get_placement_bonuses (board.rs     *)
(* 238-296).  board_spaces is the board's spaces map.                      *)
(***************************************************************************)
DEFAULT_OCEAN_ADJACENCY_MEGACREDITS == 2

\* Variant of count_adjacent_oceans that counts the neighbours holding any tile.
count_adjacent_tiles(board, location) ==
    LET NotEmpty(st) == st.status # "Empty"
    IN  CountWhere(get_neighbor_tile_status(board, location), NotEmpty)

count_adjacent_oceans(board, location) ==
    LET IsOcean(st) == st.status = "Ocean"
    IN  CountWhere(get_neighbor_tile_status(board, location), IsOcean)

\* Position of the entry the loop coalesces into: the first
\* GainResource(Megacredits, _) of the list, 0 when there is none.
coalesced_position(placement_bonuses) ==
    LET matching == {i \in DOMAIN placement_bonuses :
                        /\ placement_bonuses[i].impact = "GainResource"
                        /\ placement_bonuses[i].resource = "Megacredits"}
    IN  IF matching = {} THEN 0
        ELSE CHOOSE i \in matching : \A j \in matching : i <= j

\* "abort" stands for the panic of expect() on a location the board has no
\* space for.
get_placement_bonuses(board, board_spaces, location) ==
    IF location \notin DOMAIN board_spaces THEN "abort"
    ELSE LET ocean_adjacency_megacredits ==
                 count_adjacent_oceans(board, location) * DEFAULT_OCEAN_ADJACENCY_MEGACREDITS
             placement_bonuses == board_spaces[location].placement_bonus
             position == coalesced_position(placement_bonuses)
         IN  IF position # 0
             THEN [placement_bonuses EXCEPT ![position] =
                      GainResource("Megacredits", @.amount + ocean_adjacency_megacredits)]
             ELSE Append(placement_bonuses,
                         GainResource("Megacredits", ocean_adjacency_megacredits))

adjacent_greeneries(board, location) ==
    LET IsGreenery(st) == st.status = "Greenery"
    IN  CountWhere(get_neighbor_tile_status(board, location), IsGreenery)

adjacent_cities(board, location) ==
    LET IsCity(st) == st.status = "City"
    IN  CountWhere(get_neighbor_tile_status(board, location), IsCity)

\* Mutant of adjacent_owned_tiles: the owner comparison is dropped.
adjacent_owned_tiles_any_owner(board, player_id, location) ==
    LET Owned(st) == st.status \in {"City", "Greenery", "SpecialTile"}
    IN  CountWhere(get_neighbor_tile_status(board, location), Owned)

adjacent_owned_tiles(board, player_id, location) ==
    LET Owned(st) == st.status \in {"City", "Greenery", "SpecialTile"} /\ st.owner = player_id
    IN  CountWhere(get_neighbor_tile_status(board, location), Owned)

\* One arm of the match on a restriction: "pass", "None" (return None) or
\* "abort" (unimplemented!()).
restriction_arm(board, player_id, location, restriction) ==
    LET board_space == spaces[location]
        r == restriction.r
    IN  CASE r = "LandTile" ->
                IF ~is_land(board_space) THEN "None" ELSE "pass"
          [] r = "ReservedForOcean" ->
                IF ~is_reserved_for_ocean(board_space) THEN "None" ELSE "pass"
          [] r = "OnSteelOrTitaniumPlacementBonus" ->
                LET is_on_metal_placement_bonus ==
                        \E i \in DOMAIN board_space.placement_bonus :
                            /\ board_space.placement_bonus[i].impact = "GainResource"
                            /\ board_space.placement_bonus[i].resource \in {"Steel", "Titanium"}
                IN  IF ~is_on_metal_placement_bonus THEN "None" ELSE "pass"
          [] r = "AtSpecialLocation" ->
                LET has_matching_designation ==
                        \E i \in DOMAIN board_space.designations :
                            /\ board_space.designations[i].d = "Special"
                            /\ board_space.designations[i].s = restriction.s
                IN  IF ~has_matching_designation THEN "None" ELSE "pass"
          [] r = "AdjacentToOwnedTile" ->
                IF adjacent_owned_tiles(board, player_id, location) = 0 THEN "None" ELSE "pass"
          [] r = "AdjacentToOwnedTileIfAble" -> "abort"
          [] r = "NotNextToAnyOtherTile" ->
                IF adjacent_tiles_of_any_kind(board, location) > 0 THEN "None" ELSE "pass"
          [] r = "NotNextToACity" ->
                IF adjacent_cities(board, location) > 0 THEN "None" ELSE "pass"
          [] r = "NextToACity" ->
                IF adjacent_cities(board, location) < 1 THEN "None" ELSE "pass"
          [] r = "NextToAtLeastTwoCities" ->
                IF adjacent_cities(board, location) < 2 THEN "None" ELSE "pass"
          [] r = "NextToAGreenery" ->
                IF adjacent_greeneries(board, location) < 1 THEN "None" ELSE "pass"

\* The loop over location_restrictions, from index i on: the first arm that
\* does not pass decides; "Some" when every arm passed.
RECURSIVE check_restrictions(_, _, _, _, _)
check_restrictions(board, player_id, location, location_restrictions, i) ==
    IF i > Len(location_restrictions) THEN "Some"
    ELSE LET arm == restriction_arm(board, player_id, location, location_restrictions[i])
         IN  IF arm = "pass"
             THEN check_restrictions(board, player_id, location, location_restrictions, i + 1)
             ELSE arm

\* What can_place_city returns ("Some" / "None"), or "abort" when it panics:
\* spaces.get(location).unwrap(), unimplemented!(), or the assert after the insert.
can_place_city_result(board, player_id, location, location_restrictions) ==
    IF location \notin DOMAIN spaces THEN "abort"
    ELSE LET checked == check_restrictions(board, player_id, location, location_restrictions, 1)
         IN  IF checked # "Some" THEN checked
             ELSE IF location \in DOMAIN board.cities THEN "abort"
             ELSE "Some"

\* The cities index after a call that returned Some.
can_place_city_cities(board, player_id, location, city_kind) ==
    MapInsert(board.cities, location, [kind |-> city_kind, owner |-> player_id])

TileCount ==
    Cardinality(DOMAIN cities) + Cardinality(oceans)
        + Cardinality(DOMAIN greeneries) + Cardinality(DOMAIN special_tiles)

CanPlaceCity(player_id, location, city_kind, location_restrictions) ==
    /\ ~aborted
    /\ LET result == can_place_city_result(Board, player_id, location, location_restrictions)
       IN  /\ last_call' = [op |-> "can_place_city", result |-> result,
                            player_id |-> player_id, location |-> location,
                            city_kind |-> city_kind,
                            location_restrictions |-> location_restrictions]
           /\ aborted' = (result = "abort")
           /\ cities' = IF result = "Some"
                        THEN can_place_city_cities(Board, player_id, location, city_kind)
                        ELSE cities
    /\ UNCHANGED <<oceans, greeneries, special_tiles, oxygen, temperature>>
    /\ UNCHANGED <<gameVars, replay>>

(***************************************************************************)
(* Resources (resource.rs) and PlayerState with its builder                *)
(* (game.rs 16-188).  A card is held by its name; Catalog gives its data.  *)
(***************************************************************************)
Resources == {"Megacredits", "Steel", "Titanium", "Plants", "Energy", "Heat"}

CARD_PURCHASE_COST == 3
DEFAULT_STARTING_TERRAFORM_RATING == 20
DEFAULT_STEEL_VALUE == 2
DEFAULT_TITANIUM_VALUE == 3

\* btreemap! of the six resources, in the order of with_resources / with_production.
ResourceMap(megacredits, steel, titanium, plants, energy, heat) ==
    [r \in Resources |->
        CASE r = "Megacredits" -> megacredits
          [] r = "Steel" -> steel
          [] r = "Titanium" -> titanium
          [] r = "Plants" -> plants
          [] r = "Energy" -> energy
          [] r = "Heat" -> heat]

(***************************************************************************)
(* Card (card.rs 270-307) and PaymentCost (resource.rs 23-33).  The deck   *)
(* files are not part of the source: Catalog is a set of sample Card       *)
(* values, named after base-game cards, holding the fields the modelled    *)
(* code reads.  Game state holds a card by its name, which is unique in    *)
(* the catalog, so equal names are equal Card values.                      *)
(***************************************************************************)
Cost(class, amount) == [class |-> class, amount |-> amount]

Requirement(r, n, tag, resource) == [r |-> r, n |-> n, tag |-> tag, resource |-> resource]
MaxOxygen(n) == Requirement("MaxOxygen", n, "None", "None")
MinOxygen(n) == Requirement("MinOxygen", n, "None", "None")
MaxTemperature(n) == Requirement("MaxTemperature", n, "None", "None")
MinTemperature(n) == Requirement("MinTemperature", n, "None", "None")
MaxOceans(n) == Requirement("MaxOceans", n, "None", "None")
MinOceans(n) == Requirement("MinOceans", n, "None", "None")
MinTags(tag, n) == Requirement("MinTags", n, tag, "None")
MinOwnedGreeneries(n) == Requirement("MinOwnedGreeneries", n, "None", "None")
MinProduction(resource, n) == Requirement("MinProduction", n, "None", resource)

IncreasedMetalsValue(n) == [e |-> "IncreasedMetalsValue", n |-> n]
AnyCardDiscount(n) == [e |-> "AnyCardDiscount", n |-> n]

\* VictoryPointValue (card.rs 223-235).
VictoryPointValue(v, vp, count, tag, resource) ==
    [v |-> v, vp |-> vp, count |-> count, tag |-> tag, resource |-> resource]
Immediate(x) == VictoryPointValue("Immediate", x, 0, "None", "None")
PerNCities(n) == VictoryPointValue("PerNCities", 0, n, "None", "None")
PerTag(vp, count, tag) == VictoryPointValue("PerTag", vp, count, tag, "None")
PerCardResource(vp, count, resource) ==
    VictoryPointValue("PerCardResource", vp, count, "None", resource)
FixedPointsIfAnyCardResourcePresent(count, resource) ==
    VictoryPointValue("FixedPointsIfAnyCardResourcePresent", 0, count, "None", resource)

\* CardResource (resource.rs 4-10).
CardResources == {"Microbe", "Plant", "Animal", "Science", "Fighter"}

\* ImmediateImpacts on card resources, and one on the board (card.rs 64-104).
AddResourceToSameCard(card_resource, amount) ==
    [impact |-> "AddResourceToSameCard", resource |-> card_resource, amount |-> amount]
AddResourceToAnotherCard(card_resource, amount) ==
    [impact |-> "AddResourceToAnotherCard", resource |-> card_resource, amount |-> amount]
ImpactRaiseOxygen == [impact |-> "RaiseOxygen", resource |-> "None", amount |-> 0]

\* CardAction (card.rs 46-61); a single impact is a list of one.
CardAction(action, card_resource, resource, count, impacts) ==
    [action |-> action, card_resource |-> card_resource, resource |-> resource,
     count |-> count, impacts |-> impacts]
CauseFreeImpact(impact) == CardAction("CauseFreeImpact", "None", "None", 0, <<impact>>)
SpendProduction(resource, count, impacts) ==
    CardAction("SpendProduction", "None", resource, count, impacts)
SpendSameCardResource(card_resource, count, impact) ==
    CardAction("SpendSameCardResource", card_resource, "None", count, <<impact>>)
TakeAnyCardResource(card_resource, count, impact) ==
    CardAction("TakeAnyCardResource", card_resource, "None", count, <<impact>>)

\* A card without points (points: None) and without actions.
Card(name, kind, tags, cost, requirements, effects) ==
    [name |-> name, kind |-> kind, tags |-> tags, cost |-> cost,
     requirements |-> requirements, effects |-> effects, points |-> <<>>, actions |-> <<>>]

\* An active card with actions.
ActiveCard(name, tags, cost, actions) ==
    [Card(name, "Active", tags, cost, <<>>, <<>>) EXCEPT !.actions = actions]

\* A card with points: Some(points).
ScoringCard(name, kind, tags, cost, points) ==
    [Card(name, kind, tags, cost, <<>>, <<>>) EXCEPT !.points = <<points>>]

CatalogCards ==
    {Card("Micro-Mills", "Automated", <<>>, Cost("Megacredits", 3), <<>>, <<>>),
     Card("Dust Seals", "Automated", <<>>, Cost("Megacredits", 2), <<MaxOceans(3)>>, <<>>),
     Card("Power Plant", "Automated", <<"Power", "Building">>, Cost("Building", 4), <<>>, <<>>),
     Card("Lichen", "Automated", <<"Plant">>, Cost("Megacredits", 7),
          <<MinTemperature(-24)>>, <<>>),
     Card("Arctic Algae", "Active", <<"Plant">>, Cost("Megacredits", 12),
          <<MaxTemperature(-12)>>, <<>>),
     Card("Algae", "Automated", <<"Plant">>, Cost("Megacredits", 10), <<MinOceans(5)>>, <<>>),
     Card("Breathing Filters", "Automated", <<"Science">>, Cost("Megacredits", 11),
          <<MinOxygen(7)>>, <<>>),
     Card("Colonizer Training Camp", "Automated", <<"Jovian", "Building">>, Cost("Building", 8),
          <<MaxOxygen(5)>>, <<>>),
     Card("Ecological Zone", "Active", <<"Animal", "Plant">>, Cost("Megacredits", 12),
          <<MinOwnedGreeneries(1)>>, <<>>),
     Card("Lightning Harvest", "Automated", <<"Power">>, Cost("Megacredits", 8),
          <<MinTags("Science", 3)>>, <<>>),
     Card("Asteroid Mining Consortium", "Automated", <<"Jovian">>, Cost("Megacredits", 13),
          <<MinProduction("Titanium", 1)>>, <<>>),
     Card("Kelp Farming", "Automated", <<"Plant">>, Cost("Megacredits", 17),
          <<MinOceans(6), MinTemperature(-30)>>, <<>>),
     Card("Advanced Alloys", "Active", <<"Science">>, Cost("Megacredits", 9), <<>>,
          <<IncreasedMetalsValue(1)>>),
     Card("Development Center", "Active", <<"Science", "Building">>, Cost("Building", 11),
          <<>>, <<>>),
     Card("Asteroid", "Event", <<"Space", "Event">>, Cost("Space", 14), <<>>, <<>>),
     Card("Heat Priced Sample", "Automated", <<>>, Cost("Heat", 8), <<>>, <<>>),
     Card("Event Count Sample", "Automated", <<>>, Cost("Megacredits", 1),
          <<MinTags("Event", 1)>>, <<>>)}

\* The cards of the scoring tests (game.rs 669-815), their points as the
\* tests' comments give them, and an event and a microbe card for the
\* remaining arms.
ScoringCards ==
    {ScoringCard("Ganymede Colony", "Automated", <<"Jovian", "Space", "City">>,
                 Cost("Space", 20), PerTag(1, 1, "Jovian")),
     ScoringCard("Water Import From Europa", "Active", <<"Jovian", "Space">>,
                 Cost("Space", 25), PerTag(1, 1, "Jovian")),
     ScoringCard("Methane From Titan", "Automated", <<"Jovian", "Space">>,
                 Cost("Space", 28), Immediate(2)),
     ScoringCard("Tundra Farming", "Automated", <<"Plant">>, Cost("Megacredits", 16),
                 Immediate(2)),
     ScoringCard("Immigration Shuttles", "Automated", <<"Earth", "Space">>,
                 Cost("Space", 31), PerNCities(3)),
     ScoringCard("Jovian Event Sample", "Event", <<"Jovian", "Event">>, Cost("Space", 5),
                 Immediate(1)),
     ScoringCard("Jovian Pair Sample", "Automated", <<"Jovian">>, Cost("Megacredits", 5),
                 PerTag(3, 2, "Jovian")),
     ScoringCard("Tardigrades", "Active", <<"Microbe">>, Cost("Megacredits", 4),
                 PerCardResource(1, 4, "Microbe")),
     ScoringCard("Security Fleet", "Active", <<"Space">>, Cost("Space", 12),
                 FixedPointsIfAnyCardResourcePresent(1, "Fighter")),
     Card("Capital", "Automated", <<"City", "Building">>, Cost("Building", 26), <<>>, <<>>)}

\* Cards with actions: two that collect a card resource, one whose action
\* touches no card resource, and one whose actions name two card resources.
ResourceCards ==
    {ActiveCard("Predators", <<"Animal">>, Cost("Megacredits", 14),
                <<TakeAnyCardResource("Animal", 1, AddResourceToSameCard("Animal", 1))>>),
     ActiveCard("Regolith Eaters", <<"Science", "Microbe">>, Cost("Megacredits", 13),
                <<CauseFreeImpact(AddResourceToSameCard("Microbe", 1)),
                  SpendSameCardResource("Microbe", 2, ImpactRaiseOxygen)>>),
     ActiveCard("Card Draw Sample", <<"Science">>, Cost("Megacredits", 11),
                <<SpendProduction("Energy", 1, <<DrawCard(1)>>),
                  CauseFreeImpact(AddResourceToAnotherCard("Microbe", 1))>>),
     ActiveCard("Two Resource Sample", <<"Microbe">>, Cost("Megacredits", 9),
                <<SpendSameCardResource("Microbe", 1, AddResourceToSameCard("Animal", 1))>>)}

\* CardTag (card.rs 10-23).
CardTags ==
    {"Building", "Space", "Power", "Science", "Jovian", "Earth", "Plant", "Microbe",
     "Animal", "City", "Wild", "Event"}

\* Cards with a Wild tag: one that stays in play and one event.
TagCards ==
    {Card("Wild Tag Sample", "Automated", <<"Wild", "Science">>, Cost("Megacredits", 6),
          <<>>, <<>>),
     Card("Wild Event Sample", "Event", <<"Wild", "Plant", "Event">>, Cost("Megacredits", 2),
          <<>>, <<>>)}

\* The cards can_play_card is asked about.
PlayableCardNames == {card.name : card \in CatalogCards}

ResourceCardNames == {card.name : card \in ResourceCards}

AllCards == CatalogCards \cup ScoringCards \cup ResourceCards \cup TagCards

CardNames == {card.name : card \in AllCards}

Catalog == [name \in CardNames |-> CHOOSE card \in AllCards : card.name = name]

(***************************************************************************)
(* Card::supports_card_resource (card.rs 349-385).  `found` is the local   *)
(* `result` as an Option, `panics` whether an assert_eq! has failed.       *)
(***************************************************************************)
\* assert_eq!(*cr, result.unwrap_or(*cr)); result = Some(*cr);
note_card_resource(scan, cr) ==
    [found |-> <<cr>>,
     panics |-> scan.panics \/ (scan.found # <<>> /\ scan.found[1] # cr)]

\* for action in &self.actions, from position i on.
RECURSIVE scan_actions(_, _, _)
scan_actions(actions, i, scan) ==
    IF i > Len(actions) THEN scan
    ELSE scan_actions(actions, i + 1,
             IF actions[i].action = "SpendSameCardResource"
             THEN note_card_resource(scan, actions[i].card_resource)
             ELSE scan)

\* possible_impacts: every arm pushes the impact or impacts of its action.
RECURSIVE possible_impacts_of(_, _)
possible_impacts_of(actions, i) ==
    IF i > Len(actions) THEN <<>>
    ELSE actions[i].impacts \o possible_impacts_of(actions, i + 1)

\* for impact in possible_impacts, from position i on.
RECURSIVE scan_impacts(_, _, _)
scan_impacts(impacts, i, scan) ==
    IF i > Len(impacts) THEN scan
    ELSE scan_impacts(impacts, i + 1,
             IF impacts[i].impact = "AddResourceToSameCard"
             THEN note_card_resource(scan, impacts[i].resource)
             ELSE scan)

supports_card_resource_scan(card) ==
    scan_impacts(possible_impacts_of(card.actions, 1), 1,
                 scan_actions(card.actions, 1, [found |-> <<>>, panics |-> FALSE]))

supports_card_resource_panics(card) == supports_card_resource_scan(card).panics

supports_card_resource(card) == supports_card_resource_scan(card).found

(***************************************************************************)
(* PlayerStateBuilder (game.rs 44-188).  An Option is a sequence of length *)
(* at most one: <<>> is None and <<v>> is Some(v).                         *)
(***************************************************************************)
Some(v) == <<v>>
unwrap_or(option, default) == IF option = <<>> THEN default ELSE option[1]

PlayerStateBuilder_new(player_id) ==
    [player_id |-> player_id,
     resources |-> <<>>,
     production |-> <<>>,
     played_cards |-> <<>>,
     card_resources |-> EmptyMap,
     tapped_active_cards |-> <<>>,
     cards_in_hand |-> <<>>,
     terraform_rating |-> DEFAULT_STARTING_TERRAFORM_RATING,
     next_card_this_generation_effects |-> <<>>]

with_played_cards(builder, played_cards) ==
    [builder EXCEPT !.played_cards = Some(played_cards)]

with_resources(builder, resources) ==
    [builder EXCEPT !.resources = Some(resources)]

\* The asserts of with_production: every production but megacredits is >= 0.
with_production_accepts(production) ==
    \A r \in Resources \ {"Megacredits"} : production[r] >= 0

with_production(builder, production) ==
    [builder EXCEPT !.production = Some(production)]

\* cards_in_hand is a public field of the builder without a setter method.
with_cards_in_hand(builder, cards_in_hand) ==
    [builder EXCEPT !.cards_in_hand = Some(cards_in_hand)]

\* flat_map of the effects of the cards, in order.
RECURSIVE effects_of_cards(_)
effects_of_cards(cards) ==
    IF cards = <<>> THEN <<>>
    ELSE Catalog[Head(cards)].effects \o effects_of_cards(Tail(cards))

\* Sum of the increases of the IncreasedMetalsValue effects.
RECURSIVE metals_value_increase(_)
metals_value_increase(effects) ==
    IF effects = <<>> THEN 0
    ELSE (IF Head(effects).e = "IncreasedMetalsValue" THEN Head(effects).n ELSE 0)
            + metals_value_increase(Tail(effects))

PlayerStateBuilder_build(builder) ==
    LET effects == effects_of_cards(unwrap_or(builder.played_cards, <<>>))
    IN  [player_id |-> builder.player_id,
         resources |-> unwrap_or(builder.resources, ResourceMap(0, 0, 0, 0, 0, 0)),
         production |-> unwrap_or(builder.production, ResourceMap(0, 0, 0, 0, 0, 0)),
         played_cards |-> unwrap_or(builder.played_cards, <<>>),
         card_resources |-> builder.card_resources,
         tapped_active_cards |-> unwrap_or(builder.tapped_active_cards, {}),
         cards_in_hand |-> unwrap_or(builder.cards_in_hand, <<>>),
         terraform_rating |-> builder.terraform_rating,
         steel_value |-> DEFAULT_STEEL_VALUE + metals_value_increase(effects),
         titanium_value |-> DEFAULT_TITANIUM_VALUE + metals_value_increase(effects),
         next_card_this_generation_effects |->
             unwrap_or(builder.next_card_this_generation_effects, <<>>),
         effects |-> effects]

\* PlayerStateBuilder::new(player_id).build()
DefaultPlayer(player_id) == PlayerStateBuilder_build(PlayerStateBuilder_new(player_id))

(***************************************************************************)
(* PlayerState::advance_generation (game.rs 383-411).                      *)
(***************************************************************************)
\* new_resources after "all energy becomes heat" and "gain credits equal to
\* the terraform rating", before production is applied.
\* The same without resetting the energy that became heat.
advance_generation_keeping_energy(player) ==
    [r \in Resources |->
        CASE r = "Heat" -> player.resources["Heat"] + player.resources["Energy"]
          [] r = "Megacredits" -> player.resources["Megacredits"] + player.terraform_rating
          [] OTHER -> player.resources[r]]

advance_generation_before_production(player) ==
    LET current_energy == player.resources["Energy"]
    IN  [r \in Resources |->
            CASE r = "Heat" -> player.resources["Heat"] + current_energy
              [] r = "Energy" -> 0
              [] r = "Megacredits" -> player.resources["Megacredits"] + player.terraform_rating
              [] OTHER -> player.resources[r]]

\* Variant of the production loop that runs on the balances as they were
\* before the energy conversion and converts the energy afterwards.
advance_generation_production_first(player) ==
    LET produced == [r \in Resources |-> player.resources[r] + player.production[r]]
    IN  [r \in Resources |->
            CASE r = "Heat" -> produced["Heat"] + produced["Energy"]
              [] r = "Energy" -> 0
              [] r = "Megacredits" -> produced["Megacredits"] + player.terraform_rating
              [] OTHER -> produced[r]]

\* new_val of the production loop, per resource.
advance_generation_new_val(player) ==
    [r \in Resources |-> advance_generation_before_production(player)[r] + player.production[r]]

\* assert!(new_val >= 0) holds for every resource.
advance_generation_asserts(player) ==
    \A r \in Resources : advance_generation_new_val(player)[r] >= 0

advance_generation(player) ==
    [player EXCEPT !.resources = advance_generation_new_val(player),
                   !.tapped_active_cards = {},
                   !.next_card_this_generation_effects = <<>>]

\* A call that changes the state of players is made on the Game and on its
\* replay; the run aborts when either execution trips an assert.
ExecuteOnPlayers(ok, executed, replayed) ==
    /\ aborted' = ~ok
    /\ players' = IF ok THEN executed ELSE players
    /\ replay' = IF ok THEN [replay EXCEPT !.players = replayed] ELSE replay
    /\ UNCHANGED <<boardVars, draw_deck, discard_pile>>

AdvanceGeneration(player_id) ==
    /\ ~aborted
    /\ LET ok == /\ advance_generation_asserts(players[player_id])
                 /\ advance_generation_asserts(replay.players[player_id])
       IN  /\ last_call' = [op |-> "advance_generation", result |-> IF ok THEN "done" ELSE "abort",
                            player_id |-> player_id]
           /\ ExecuteOnPlayers(ok,
                  [players EXCEPT ![player_id] = advance_generation(@)],
                  [replay.players EXCEPT ![player_id] = advance_generation(@)])

(***************************************************************************)
(* PlayerState::purchase_cards (game.rs 228-242).                          *)
(***************************************************************************)
\* The same with the balance test turned into <=.
purchase_cards_needing_change(player, cards) ==
    LET megacredits_balance == player.resources["Megacredits"]
        megacredits_cost == Len(cards) * CARD_PURCHASE_COST
    IN  IF megacredits_balance <= megacredits_cost
        THEN [result |-> "None", player |-> player]
        ELSE [result |-> "Some",
              player |-> [player EXCEPT
                             !.cards_in_hand = @ \o cards,
                             !.resources["Megacredits"] = megacredits_balance - megacredits_cost]]

purchase_cards(player, cards) ==
    LET megacredits_balance == player.resources["Megacredits"]
        megacredits_cost == Len(cards) * CARD_PURCHASE_COST
    IN  IF megacredits_balance < megacredits_cost
        THEN [result |-> "None", player |-> player]
        ELSE [result |-> "Some",
              player |-> [player EXCEPT
                             !.cards_in_hand = @ \o cards,
                             !.resources["Megacredits"] = megacredits_balance - megacredits_cost]]

PurchaseCards(player_id, cards) ==
    /\ ~aborted
    /\ last_call' = [op |-> "purchase_cards",
                     result |-> purchase_cards(players[player_id], cards).result,
                     player_id |-> player_id, cards |-> cards]
    /\ ExecuteOnPlayers(TRUE,
           [players EXCEPT ![player_id] = purchase_cards(@, cards).player],
           [replay.players EXCEPT ![player_id] = purchase_cards(@, cards).player])

(***************************************************************************)
(* ActiveTags for Vec<Card> (game.rs 197-225) and                          *)
(* PlayerState::can_play_card (game.rs 320-381).                           *)
(***************************************************************************)
RECURSIVE get_non_event_tags(_)
get_non_event_tags(cards) ==
    IF cards = <<>> THEN <<>>
    ELSE (IF Catalog[Head(cards)].kind = "Event" THEN <<>> ELSE Catalog[Head(cards)].tags)
            \o get_non_event_tags(Tail(cards))

\* Variant of active_tag_count that takes the tags of event cards along.
RECURSIVE tags_of_all_cards(_)
tags_of_all_cards(cards) ==
    IF cards = <<>> THEN <<>>
    ELSE Catalog[Head(cards)].tags \o tags_of_all_cards(Tail(cards))

active_tag_count_with_events(cards, tag_kind) ==
    Cardinality({i \in DOMAIN tags_of_all_cards(cards) :
                    tags_of_all_cards(cards)[i] = tag_kind})

\* assert_ne!(tag_kind, CardTag::Event)
active_tag_count_asserts(tag_kind) == tag_kind # "Event"

active_tag_count(cards, tag_kind) ==
    Cardinality({i \in DOMAIN get_non_event_tags(cards) :
                    get_non_event_tags(cards)[i] = tag_kind})

\* Variant of active_tag_count_for_action that passes the Wild tags over.
active_tag_count_for_action_without_wild(cards, tag_kind) ==
    Cardinality({i \in DOMAIN get_non_event_tags(cards) :
                    get_non_event_tags(cards)[i] = tag_kind})

\* Wild tags only count for the purposes of performing actions.
active_tag_count_for_action(cards, tag_kind) ==
    Cardinality({i \in DOMAIN get_non_event_tags(cards) :
                    \/ get_non_event_tags(cards)[i] = tag_kind
                    \/ get_non_event_tags(cards)[i] = "Wild"})

\* PlayerState's active_tag_count and active_tag_count_for_action (game.rs
\* 418-424) asked for the same tag of one player's played cards.
ActiveTagCounts(player_id, tag_kind) ==
    /\ ~aborted
    /\ LET ok == active_tag_count_asserts(tag_kind)
           cards == players[player_id].played_cards
       IN  /\ last_call' = [op |-> "active_tag_count", result |-> IF ok THEN "done" ELSE "abort",
                            player_id |-> player_id, tag_kind |-> tag_kind,
                            count |-> IF ok THEN active_tag_count(cards, tag_kind) ELSE 0,
                            count_for_action |->
                                IF ok THEN active_tag_count_for_action(cards, tag_kind) ELSE 0]
           /\ aborted' = ~ok
    /\ UNCHANGED <<boardVars, gameVars, replay>>

(***************************************************************************)
(* PlayerState::get_total_victory_points (game.rs 244-318).                *)
(***************************************************************************)
\* self.card_resources.get(&(c.clone(), cr)).copied().unwrap_or_default()
resources_present(player, card_name, resource) ==
    IF <<card_name, resource>> \in DOMAIN player.card_resources
    THEN player.card_resources[<<card_name, resource>>]
    ELSE 0

\* Variant of total_cities that leaves out the cities off Mars.
total_cities_on_mars(board) ==
    Cardinality({l \in DOMAIN board.cities : l.kind = "OnMars"})

\* board.cities.len()
total_cities(board) == Cardinality(DOMAIN board.cities)

\* The closure of the map over played_cards panics on the assert of the
\* PerTag arm and on a division by zero.
card_points_panics(card_name) ==
    /\ Catalog[card_name].points # <<>>
    /\ LET points == Catalog[card_name].points[1]
       IN  \/ points.v = "PerTag" /\ points.tag = "Event"
           \/ points.v \in {"PerTag", "PerCardResource", "PerNCities"} /\ points.count = 0

\* Value of the closure for one played card.
card_points(player, board, card_name) ==
    IF Catalog[card_name].points = <<>> THEN 0
    ELSE LET points == Catalog[card_name].points[1]
         IN  CASE points.v = "Immediate" -> points.vp
               [] points.v = "PerTag" ->
                     (active_tag_count(player.played_cards, points.tag) \div points.count)
                         * points.vp
               [] points.v = "PerCardResource" ->
                     (resources_present(player, card_name, points.resource) \div points.count)
                         * points.vp
               [] points.v = "FixedPointsIfAnyCardResourcePresent" ->
                     IF resources_present(player, card_name, points.resource) > 0
                     THEN points.count ELSE 0
               [] points.v = "PerNCities" -> total_cities(board) \div points.count

RECURSIVE sum(_)
sum(values) == IF values = <<>> THEN 0 ELSE Head(values) + sum(Tail(values))

greenery_points(player, board) ==
    Cardinality({c \in DOMAIN board.greeneries : board.greeneries[c] = player.player_id})

\* Variant of capital_points that scores the oceans next to a city of any kind.
capital_points_of_any_city(board, location, city_kind) ==
    count_adjacent_oceans(board, location)

capital_points(board, location, city_kind) ==
    IF city_kind = "Capital" THEN count_adjacent_oceans(board, location) ELSE 0

greenery_adjacency_points(board, location) ==
    LET IsGreenery(st) == st.status = "Greenery"
    IN  CountWhere(get_neighbor_tile_status(board, location), IsGreenery)

\* Sum of the closure's values over the cities at `locations`.
RECURSIVE sum_of_city_points(_, _)
sum_of_city_points(board, locations) ==
    IF locations = {} THEN 0
    ELSE LET location == CHOOSE l \in locations : TRUE
         IN  capital_points(board, location, board.cities[location].kind)
                 + greenery_adjacency_points(board, location)
                 + sum_of_city_points(board, locations \ {location})

city_points(player, board) ==
    sum_of_city_points(board, {l \in DOMAIN board.cities :
                                  board.cities[l].owner = player.player_id})

\* The total, with the values it was summed from.
get_total_victory_points(player, board) ==
    LET per_card == [i \in DOMAIN player.played_cards |->
                        card_points(player, board, player.played_cards[i])]
    IN  [total |-> player.terraform_rating + sum(per_card) + greenery_points(player, board)
                       + city_points(player, board),
         per_card |-> per_card,
         greenery_points |-> greenery_points(player, board),
         city_points |-> city_points(player, board)]

get_total_victory_points_panics(player) ==
    \E i \in DOMAIN player.played_cards : card_points_panics(player.played_cards[i])

GetTotalVictoryPoints(player_id) ==
    /\ ~aborted
    /\ LET player == players[player_id]
           panics == get_total_victory_points_panics(player)
       IN  /\ last_call' = IF panics
                           THEN [op |-> "get_total_victory_points", result |-> "abort",
                                 player_id |-> player_id]
                           ELSE [op |-> "get_total_victory_points", result |-> "done",
                                 player_id |-> player_id,
                                 points |-> get_total_victory_points(player, Board)]
           /\ aborted' = panics
    /\ UNCHANGED <<boardVars, gameVars, replay>>

owned_greeneries(player, board) ==
    Cardinality({c \in DOMAIN board.greeneries : board.greeneries[c] = player.player_id})

\* Value of the closure handed to any() for one requirement: "abort" when
\* active_tag_count trips its assert.
requirement_closure(player, board, requirement) ==
    CASE requirement.r = "MaxOxygen" -> board.oxygen <= requirement.n
      [] requirement.r = "MinOxygen" -> board.oxygen >= requirement.n
      [] requirement.r = "MaxTemperature" -> board.temperature <= requirement.n
      [] requirement.r = "MinTemperature" -> board.temperature >= requirement.n
      [] requirement.r = "MaxOceans" -> Cardinality(board.oceans) <= requirement.n
      [] requirement.r = "MinOceans" -> Cardinality(board.oceans) >= requirement.n
      [] requirement.r = "MinOwnedGreeneries" -> owned_greeneries(player, board) >= requirement.n
      [] requirement.r = "MinTags" ->
            active_tag_count(player.played_cards, requirement.tag) >= requirement.n
      [] requirement.r = "MinProduction" ->
            player.production[requirement.resource] >= requirement.n

\* card.requirements.iter().any(closure), from position i on: the iteration
\* stops at the first requirement for which the closure yields true.
RECURSIVE fails_requirements(_, _, _, _)
fails_requirements(player, board, requirements, i) ==
    IF i > Len(requirements) THEN "false"
    ELSE IF requirements[i].r = "MinTags" /\ ~active_tag_count_asserts(requirements[i].tag)
         THEN "abort"
    ELSE IF requirement_closure(player, board, requirements[i]) THEN "true"
    ELSE fails_requirements(player, board, requirements, i + 1)

PayableCostClasses == {"Megacredits", "Building", "Space", "SpaceOrBuilding"}

\* can_pay, for the cost classes the match has an arm for.
can_pay(player, cost) ==
    LET megacredits_balance == player.resources["Megacredits"]
        steel_balance == player.resources["Steel"]
        titanium_balance == player.resources["Titanium"]
    IN  CASE cost.class = "Megacredits" -> cost.amount <= megacredits_balance
          [] cost.class = "Building" ->
                cost.amount <= megacredits_balance + steel_balance * player.steel_value
          [] cost.class = "Space" ->
                cost.amount <= megacredits_balance + titanium_balance * player.titanium_value
          [] cost.class = "SpaceOrBuilding" ->
                cost.amount <= megacredits_balance + steel_balance * player.steel_value
                                  + titanium_balance * player.titanium_value

\* "Some" stands for Some(card.cost.clone()).
can_play_card(player, board, card) ==
    LET fails == fails_requirements(player, board, card.requirements, 1)
    IN  IF fails = "abort" THEN "abort"
        ELSE IF fails = "true" THEN "None"
        ELSE IF card.cost.class \notin PayableCostClasses THEN "abort"
        ELSE IF ~can_pay(player, card.cost) THEN "None"
        ELSE "Some"

CanPlayCard(player_id, card_name) ==
    /\ ~aborted
    /\ LET result == can_play_card(players[player_id], Board, Catalog[card_name])
       IN  /\ last_call' = [op |-> "can_play_card", result |-> result,
                            player_id |-> player_id, card |-> card_name]
           /\ aborted' = (result = "abort")
    /\ UNCHANGED <<boardVars, gameVars, replay>>

(***************************************************************************)
(* The generation search (sim.rs 6-98).                                    *)
(***************************************************************************)
\* PlayerState::play_card(index) is called by the search (sim.rs 73) and is
\* defined in no source file.  It is modelled after the spec's description of
\* playing a card: a card whose megacredit cost the balance covers is paid
\* for and moves from the hand to the played cards; any other card is not
\* played and the state is left alone.  `index` counts from 0.
play_card(state, index) ==
    LET name == state.cards_in_hand[index + 1]
        cost == Catalog[name].cost
    IN  IF cost.class = "Megacredits" /\ cost.amount <= state.resources["Megacredits"]
        THEN [result |-> "Some",
              state |-> [state EXCEPT
                            !.resources["Megacredits"] = @ - cost.amount,
                            !.cards_in_hand = SubSeq(@, 1, index) \o SubSeq(@, index + 2, Len(@)),
                            !.played_cards = Append(@, name)]]
        ELSE [result |-> "None", state |-> state]

PlayCard(card) == [action |-> "PlayCard", card |-> card]

\* Result list of make_all_possible_plays_recursively, for the cursor value
\* next_card_index_to_consider (counted from 0).
RECURSIVE make_all_possible_plays_recursively(_, _, _)
make_all_possible_plays_recursively(next_card_index_to_consider, initial_state, opponent_states) ==
    IF next_card_index_to_consider >= Len(initial_state.cards_in_hand)
    THEN <<[turns |-> <<>>, final_state |-> initial_state]>>
    ELSE LET card == initial_state.cards_in_hand[next_card_index_to_consider + 1]
             played == play_card(initial_state, next_card_index_to_consider)
             play_vector == IF played.result = "None" THEN <<>> ELSE <<PlayCard(card)>>
             rest == make_all_possible_plays_recursively(
                         next_card_index_to_consider + 1, played.state, opponent_states)
         IN  [k \in DOMAIN rest |->
                 [turns |-> play_vector \o rest[k].turns, final_state |-> rest[k].final_state]]

make_all_possible_plays(initial_state, opponent_states) ==
    make_all_possible_plays_recursively(0, initial_state, opponent_states)

\* variation & (1usize << i) != 0
bit_is_set(variation, i) == (variation \div (2 ^ i)) % 2 = 1

\* The cards pushed to purchased_cards for one variation, from offered
\* position i (counted from 0) on.
RECURSIVE purchased_cards_of(_, _, _)
purchased_cards_of(offered_cards, variation, i) ==
    IF i >= Len(offered_cards) THEN <<>>
    ELSE (IF bit_is_set(variation, i) THEN <<offered_cards[i + 1]>> ELSE <<>>)
            \o purchased_cards_of(offered_cards, variation, i + 1)

\* Variant that goes on from the initial state when the purchase cannot be
\* paid, instead of leaving the variation out.
plays_of_variation_keeping_unpaid(initial_state, opponent_states, offered_cards, variation) ==
    LET purchased_cards == purchased_cards_of(offered_cards, variation, 0)
        purchase == purchase_cards(initial_state, purchased_cards)
        possible_plays ==
            make_all_possible_plays(
                IF purchase.result = "None" THEN initial_state ELSE purchase.player,
                opponent_states)
    IN  [k \in DOMAIN possible_plays |->
            [purchased |-> IF k = 1 /\ purchase.result # "None" THEN purchased_cards ELSE <<>>,
             turns |-> possible_plays[k].turns,
             final_state |-> possible_plays[k].final_state]]

\* What one variation adds to result.  The closure of the map drains
\* purchased_cards, so only the first triple of a variation receives them.
plays_of_variation(initial_state, opponent_states, offered_cards, variation) ==
    LET purchased_cards == purchased_cards_of(offered_cards, variation, 0)
        purchase == purchase_cards(initial_state, purchased_cards)
        possible_plays == make_all_possible_plays(purchase.player, opponent_states)
    IN  IF purchase.result = "None" THEN <<>>
        ELSE [k \in DOMAIN possible_plays |->
                 [purchased |-> IF k = 1 THEN purchased_cards ELSE <<>>,
                  turns |-> possible_plays[k].turns,
                  final_state |-> possible_plays[k].final_state]]

\* What the variations from `first` up to `last` - 1 add to result, in loop
\* order (the range is halved to keep the evaluation shallow).
RECURSIVE plays_of_variations(_, _, _, _, _)
plays_of_variations(initial_state, opponent_states, offered_cards, first, last) ==
    IF first >= last THEN <<>>
    ELSE IF first + 1 = last
    THEN plays_of_variation(initial_state, opponent_states, offered_cards, first)
    ELSE LET middle == (first + last) \div 2
         IN  plays_of_variations(initial_state, opponent_states, offered_cards, first, middle)
                \o plays_of_variations(initial_state, opponent_states, offered_cards,
                                       middle, last)

\* result after the variations from `variation` up to all_variations - 1.
plays_from_variation(initial_state, opponent_states, offered_cards, variation) ==
    plays_of_variations(initial_state, opponent_states, offered_cards,
                        variation, 2 ^ Len(offered_cards))

\* The purchase lists the loop over the variations builds, in loop order.
variations_from(offered_cards, variation) ==
    [k \in 1..(2 ^ Len(offered_cards) - variation) |->
        purchased_cards_of(offered_cards, variation + k - 1, 0)]

\* Variant of the assert that lets an eleventh offered card through.
accepts_eleven_offered_cards(offered_cards) == Len(offered_cards) <= 11

\* assert!(offered_cards.len() <= 10)
get_possible_generation_plays_asserts(offered_cards) == Len(offered_cards) <= 10

get_possible_generation_plays(initial_state, opponent_states, offered_cards) ==
    plays_from_variation(initial_state, opponent_states, offered_cards, 0)

\* Variant of the search step that takes the discard pile into the draw deck
\* in some order, as the reshuffle of DrawCards does (game.rs 540-542).
GetPossibleGenerationPlaysReshuffling(player_id, offered_cards) ==
    /\ ~aborted
    /\ LET ok == get_possible_generation_plays_asserts(offered_cards)
           opponent_states == [p \in DOMAIN players \ {player_id} |-> players[p]]
           plays == IF ok
                    THEN get_possible_generation_plays(
                             players[player_id], opponent_states, offered_cards)
                    ELSE <<>>
       IN  /\ last_call' = [op |-> "get_possible_generation_plays",
                            result |-> IF ok THEN "done" ELSE "abort",
                            player_id |-> player_id, offered_cards |-> offered_cards,
                            plays |-> plays, replay_plays |-> plays, considered |-> <<>>]
           /\ aborted' = ~ok
    /\ \E shuffled \in [1..Len(discard_pile) -> {discard_pile[i] : i \in DOMAIN discard_pile}] :
          draw_deck' = draw_deck \o shuffled
    /\ discard_pile' = <<>>
    /\ UNCHANGED <<boardVars, players, replay>>

\* The search is run for one player of the Game, the others being the
\* opponents; it works on clones and changes no state.  The same call is
\* made on the replay Game, and `considered` lists the purchase lists of the
\* variations the loop went through.
GetPossibleGenerationPlays(player_id, offered_cards) ==
    /\ ~aborted
    /\ LET ok == get_possible_generation_plays_asserts(offered_cards)
           opponent_states == [p \in DOMAIN players \ {player_id} |-> players[p]]
           replay_opponent_states ==
               [p \in DOMAIN replay.players \ {player_id} |-> replay.players[p]]
       IN  /\ last_call' = [op |-> "get_possible_generation_plays",
                            result |-> IF ok THEN "done" ELSE "abort",
                            player_id |-> player_id, offered_cards |-> offered_cards,
                            plays |-> IF ok
                                      THEN get_possible_generation_plays(
                                               players[player_id], opponent_states, offered_cards)
                                      ELSE <<>>,
                            replay_plays |->
                                IF ok
                                THEN get_possible_generation_plays(
                                         replay.players[player_id], replay_opponent_states,
                                         offered_cards)
                                ELSE <<>>,
                            considered |-> IF ok THEN variations_from(offered_cards, 0)
                                           ELSE <<>>]
           /\ aborted' = ~ok
    /\ UNCHANGED <<boardVars, gameVars, replay>>

(***************************************************************************)
(* The generation search step by step (sim.rs 6-98).  While a call of      *)
(* get_possible_generation_plays runs, last_call holds its activation: the *)
(* locals of the loop over the variations, the cursor                      *)
(* next_card_index_to_consider that the recursion shares by reference, the *)
(* frames of make_all_possible_plays_recursively that have not returned,   *)
(* and the value a frame has just returned together with the cursor on its *)
(* entry and on its return.  initial_state is a shared reference: the      *)
(* steps read players[player_id] and work on clones.                       *)
(***************************************************************************)
\* A call of make_all_possible_plays_recursively that has just been made.
Frame(initial_state, next_card_index_to_consider) ==
    [initial_state |-> initial_state, entered_with |-> next_card_index_to_consider,
     play_vector |-> <<>>, phase |-> "called"]

\* Variant of the return that leaves the cursor where the callee left it.
kept_index(next_card_index_to_consider) == next_card_index_to_consider

\* *next_card_index_to_consider -= 1 (sim.rs 95).
decremented_index(next_card_index_to_consider) == next_card_index_to_consider - 1

SearchRunning ==
    ~aborted /\ last_call.op = "search" /\ last_call.result = "running"

\* The call itself: the assert and the locals before the loop (sim.rs 12-15).
BeginSearch(player_id, offered_cards) ==
    /\ ~aborted
    /\ LET ok == get_possible_generation_plays_asserts(offered_cards)
       IN  /\ last_call' = [op |-> "search", result |-> IF ok THEN "running" ELSE "abort",
                            player_id |-> player_id, offered_cards |-> offered_cards,
                            state_on_entry |-> players[player_id],
                            variation |-> 0, purchased_cards |-> <<>>,
                            next_card_index_to_consider |-> 0,
                            frames |-> <<>>, returned |-> <<>>, plays |-> <<>>]
           /\ aborted' = ~ok
    /\ UNCHANGED <<boardVars, gameVars, replay>>

\* The head of the loop (sim.rs 17-27): the call returns after the last
\* variation; a variation that cannot be paid is left out; otherwise
\* make_all_possible_plays starts the recursion with the cursor at 0.
NextVariation ==
    /\ SearchRunning
    /\ last_call.frames = <<>>
    /\ last_call.returned = <<>>
    /\ LET call == last_call
           all_variations == 2 ^ Len(call.offered_cards)
           purchased_cards == purchased_cards_of(call.offered_cards, call.variation, 0)
           purchase == purchase_cards(players[call.player_id], purchased_cards)
       IN  last_call' =
               IF call.variation >= all_variations
               THEN [call EXCEPT !.result = "done"]
               ELSE IF purchase.result = "None"
               THEN [call EXCEPT !.variation = @ + 1]
               ELSE [call EXCEPT !.purchased_cards = purchased_cards,
                                 !.next_card_index_to_consider = 0,
                                 !.frames = <<Frame(purchase.player, 0)>>]
    /\ UNCHANGED <<boardVars, gameVars, replay, aborted>>

\* The body of make_all_possible_plays_recursively up to its recursive call
\* (sim.rs 63-86): past the end of the hand it returns the single leaf;
\* otherwise it plays the card on a clone, moves the cursor on and calls
\* itself with the clone.
EnterCall ==
    /\ SearchRunning
    /\ last_call.frames # <<>>
    /\ last_call.returned = <<>>
    /\ LET call == last_call
           depth == Len(call.frames)
           frame == call.frames[depth]
           index == call.next_card_index_to_consider
           state == frame.initial_state
       IN  /\ frame.phase = "called"
           /\ last_call' =
                  IF index >= Len(state.cards_in_hand)
                  THEN [call EXCEPT
                           !.frames = SubSeq(@, 1, depth - 1),
                           !.returned = <<[value |-> <<[turns |-> <<>>, final_state |-> state]>>,
                                           entered_with |-> frame.entered_with,
                                           returned_with |-> index]>>]
                  ELSE LET card == state.cards_in_hand[index + 1]
                           played == play_card(state, index)
                           play_vector == IF played.result = "None" THEN <<>>
                                          ELSE <<PlayCard(card)>>
                       IN  [call EXCEPT
                               !.frames = Append([@ EXCEPT ![depth].play_vector = play_vector,
                                                           ![depth].phase = "waiting"],
                                                 Frame(played.state, index + 1)),
                               !.next_card_index_to_consider = index + 1]
    /\ UNCHANGED <<boardVars, gameVars, replay, aborted>>

\* The rest of the body after the recursive call returned (sim.rs 87-96):
\* the play vector is put in front of every returned list of moves, the
\* cursor is moved back and the frame returns.
ResumeCall ==
    /\ SearchRunning
    /\ last_call.frames # <<>>
    /\ last_call.returned # <<>>
    /\ LET call == last_call
           depth == Len(call.frames)
           frame == call.frames[depth]
           rest == call.returned[1].value
           result == [k \in DOMAIN rest |->
                         [turns |-> frame.play_vector \o rest[k].turns,
                          final_state |-> rest[k].final_state]]
           index == decremented_index(call.next_card_index_to_consider)
       IN  last_call' = [call EXCEPT
                            !.frames = SubSeq(@, 1, depth - 1),
                            !.next_card_index_to_consider = index,
                            !.returned = <<[value |-> result,
                                            entered_with |-> frame.entered_with,
                                            returned_with |-> index]>>]
    /\ UNCHANGED <<boardVars, gameVars, replay, aborted>>

\* make_all_possible_plays has returned: result.extend over the drained
\* plays (sim.rs 29-36), then the next variation.
CollectPlays ==
    /\ SearchRunning
    /\ last_call.frames = <<>>
    /\ last_call.returned # <<>>
    /\ LET call == last_call
           possible_plays == call.returned[1].value
       IN  last_call' = [call EXCEPT
                            !.plays = @ \o [k \in DOMAIN possible_plays |->
                                               [purchased |-> IF k = 1 THEN call.purchased_cards
                                                              ELSE <<>>,
                                                turns |-> possible_plays[k].turns,
                                                final_state |-> possible_plays[k].final_state]],
                            !.purchased_cards = <<>>,
                            !.variation = @ + 1,
                            !.returned = <<>>]
    /\ UNCHANGED <<boardVars, gameVars, replay, aborted>>

(***************************************************************************)
(* Game::execute_operation, the player arms (game.rs 489-514, 635-651).    *)
(* `changes` is a BTreeMap<Resource, isize>: a function on a set of        *)
(* resources.                                                              *)
(***************************************************************************)
\* Value of one resource after the loop of ChangeResources / ChangeProduction.
changed_value(prior, changes, r) ==
    IF r \in DOMAIN changes /\ changes[r] # 0 THEN prior[r] + changes[r] ELSE prior[r]

ChangeResources_asserts(player, changes) ==
    \A r \in DOMAIN changes :
        changes[r] # 0 => player.resources[r] + changes[r] >= 0

\* The same without the floor on the megacredit production.
ChangeProduction_asserts_without_rating_floor(player, changes) ==
    \A r \in DOMAIN changes \ {"Megacredits"} :
        changes[r] # 0 => player.production[r] + changes[r] >= 0

ChangeProduction_asserts(player, changes) ==
    \A r \in DOMAIN changes :
        changes[r] # 0 =>
            IF r = "Megacredits"
            THEN player.terraform_rating + (player.production[r] + changes[r]) >= 0
            ELSE player.production[r] + changes[r] >= 0

change_resources(player, changes) ==
    [player EXCEPT !.resources = [r \in Resources |-> changed_value(player.resources, changes, r)]]

change_production(player, changes) ==
    [player EXCEPT !.production = [r \in Resources |-> changed_value(player.production, changes, r)]]

ChangeResources(player_id, changes) ==
    /\ ~aborted
    /\ LET ok == /\ ChangeResources_asserts(players[player_id], changes)
                 /\ ChangeResources_asserts(replay.players[player_id], changes)
       IN  /\ last_call' = [op |-> "ChangeResources", result |-> IF ok THEN "done" ELSE "abort",
                            player_id |-> player_id]
           /\ ExecuteOnPlayers(ok,
                  [players EXCEPT ![player_id] = change_resources(@, changes)],
                  [replay.players EXCEPT ![player_id] = change_resources(@, changes)])

ChangeProduction(player_id, changes) ==
    /\ ~aborted
    /\ LET ok == /\ ChangeProduction_asserts(players[player_id], changes)
                 /\ ChangeProduction_asserts(replay.players[player_id], changes)
       IN  /\ last_call' = [op |-> "ChangeProduction", result |-> IF ok THEN "done" ELSE "abort",
                            player_id |-> player_id]
           /\ ExecuteOnPlayers(ok,
                  [players EXCEPT ![player_id] = change_production(@, changes)],
                  [replay.players EXCEPT ![player_id] = change_production(@, changes)])

\* The same with the amount taken off the rating.
LowerTerraformRating(player_id, amount) ==
    /\ ~aborted
    /\ last_call' = [op |-> "RaiseTerraformRating", result |-> "done", player_id |-> player_id]
    /\ ExecuteOnPlayers(TRUE,
           [players EXCEPT ![player_id].terraform_rating = @ - amount],
           [replay.players EXCEPT ![player_id].terraform_rating = @ - amount])

RaiseTerraformRating(player_id, amount) ==
    /\ ~aborted
    /\ last_call' = [op |-> "RaiseTerraformRating", result |-> "done", player_id |-> player_id]
    /\ ExecuteOnPlayers(TRUE,
           [players EXCEPT ![player_id].terraform_rating = @ + amount],
           [replay.players EXCEPT ![player_id].terraform_rating = @ + amount])

\* Game::execute_operation, AddEffect (game.rs 639-642).
AddEffect(player_id, effect) ==
    /\ ~aborted
    /\ last_call' = [op |-> "AddEffect", result |-> "done", player_id |-> player_id,
                     effect |-> effect]
    /\ ExecuteOnPlayers(TRUE,
           [players EXCEPT ![player_id].effects = Append(@, effect)],
           [replay.players EXCEPT ![player_id].effects = Append(@, effect)])

MarkCardActionUsed(player_id, card) ==
    /\ ~aborted
    /\ last_call' = [op |-> "MarkCardActionUsed", result |-> "done", player_id |-> player_id]
    /\ ExecuteOnPlayers(TRUE,
           [players EXCEPT ![player_id].tapped_active_cards = @ \cup {card}],
           [replay.players EXCEPT ![player_id].tapped_active_cards = @ \cup {card}])

\* Variant of ResetCardActions that untaps the cards of the first player only.
ResetCardActionsOfFirstPlayer ==
    /\ ~aborted
    /\ last_call' = [op |-> "ResetCardActions", result |-> "done",
                     tapped |-> [p \in DOMAIN players |-> players[p].tapped_active_cards]]
    /\ ExecuteOnPlayers(TRUE,
           [players EXCEPT ![1].tapped_active_cards = {}],
           [replay.players EXCEPT ![1].tapped_active_cards = {}])

\* `tapped` records the sets the call found.
ResetCardActions ==
    /\ ~aborted
    /\ last_call' = [op |-> "ResetCardActions", result |-> "done",
                     tapped |-> [p \in DOMAIN players |-> players[p].tapped_active_cards]]
    /\ ExecuteOnPlayers(TRUE,
           [p \in DOMAIN players |-> [players[p] EXCEPT !.tapped_active_cards = {}]],
           [p \in DOMAIN replay.players |->
               [replay.players[p] EXCEPT !.tapped_active_cards = {}]])

(***************************************************************************)
(* Game::execute_operation, ChangeCardResource (game.rs 515-532).          *)
(***************************************************************************)
\* Variant of the asserts that checks the sign only where an entry exists.
change_card_resource_asserts_on_entries(player, card, card_resource, amount) ==
    /\ ~supports_card_resource_panics(Catalog[card])
    /\ supports_card_resource(Catalog[card]) = <<card_resource>>
    /\ <<card, card_resource>> \in DOMAIN player.card_resources
          => player.card_resources[<<card, card_resource>>] + amount >= 0

\* The asserts of the arm: the card supports the resource, and the new
\* quantity (and_modify) or the first amount (or_insert_with) is not negative.
change_card_resource_asserts(player, card, card_resource, amount) ==
    /\ ~supports_card_resource_panics(Catalog[card])
    /\ supports_card_resource(Catalog[card]) = <<card_resource>>
    /\ IF <<card, card_resource>> \in DOMAIN player.card_resources
       THEN player.card_resources[<<card, card_resource>>] + amount >= 0
       ELSE amount >= 0

change_card_resource(player, card, card_resource, amount) ==
    [player EXCEPT !.card_resources =
        MapInsert(@, <<card, card_resource>>,
                  IF <<card, card_resource>> \in DOMAIN @
                  THEN @[<<card, card_resource>>] + amount
                  ELSE amount)]

ChangeCardResource(player_id, card, card_resource, amount) ==
    /\ ~aborted
    /\ LET ok == /\ change_card_resource_asserts(players[player_id], card, card_resource, amount)
                 /\ change_card_resource_asserts(replay.players[player_id], card,
                                                 card_resource, amount)
       IN  /\ last_call' = [op |-> "ChangeCardResource", result |-> IF ok THEN "done" ELSE "abort",
                            player_id |-> player_id, card |-> card,
                            card_resource |-> card_resource, amount |-> amount]
           /\ ExecuteOnPlayers(ok,
                  [players EXCEPT ![player_id] =
                      change_card_resource(@, card, card_resource, amount)],
                  [replay.players EXCEPT ![player_id] =
                      change_card_resource(@, card, card_resource, amount)])

(***************************************************************************)
(* Game::execute_operation, the card arms (game.rs 533-570), as functions  *)
(* of the card zones of a Game: players, draw_deck and discard_pile.       *)
(***************************************************************************)
CardZones == [players |-> players, draw_deck |-> draw_deck, discard_pile |-> discard_pile]

\* Every order discard_pile.shuffle(&mut rng) can leave the pile in.
Shuffles(pile) ==
    {[i \in 1..Len(pile) |-> pile[f[i]]] : f \in Permutations(1..Len(pile))}

Range(seq) == {seq[i] : i \in DOMAIN seq}

\* draw_deck.drain(n..): the cards from position n+1 on (Rust counts from 0).
DrainFrom(deck, n) == SubSeq(deck, n + 1, Len(deck))

\* DrawCards, with `shuffled` the order the shuffle leaves the discard pile in.
draw_cards(game, player_id, count, shuffled) ==
    LET hand == game.players[player_id].cards_in_hand
        exhausted == count > Len(game.draw_deck)
        \* inside the if: extend the hand with the drained deck, then subtract
        \* the length of the deck, which the drain has just emptied
        drained_deck == <<>>
        hand_1 == IF exhausted THEN hand \o game.draw_deck ELSE hand
        count_1 == IF exhausted THEN count - Len(drained_deck) ELSE count
        deck_1 == IF exhausted THEN drained_deck \o shuffled ELSE game.draw_deck
        pile_1 == IF exhausted THEN <<>> ELSE game.discard_pile
        ok == count_1 <= Len(deck_1)
        hand_2 == hand_1 \o DrainFrom(deck_1, Len(deck_1) - count_1)
        deck_2 == SubSeq(deck_1, 1, Len(deck_1) - count_1)
    IN  [ok |-> ok,
         reshuffles |-> IF exhausted THEN 1 ELSE 0,
         game |-> IF ok
                  THEN [players |-> [game.players EXCEPT ![player_id].cards_in_hand = hand_2],
                        draw_deck |-> deck_2,
                        discard_pile |-> pile_1]
                  ELSE game]

discard_cards(game, player_id, discard) ==
    LET hand == game.players[player_id].cards_in_hand
        kept(card) == card \notin Range(discard)
        retained == SelectSeq(hand, kept)
        ok == Len(hand) = Len(retained) + Len(discard)
    IN  [ok |-> ok,
         game |-> IF ok
                  THEN [players |-> [game.players EXCEPT ![player_id].cards_in_hand = retained],
                        draw_deck |-> game.draw_deck,
                        discard_pile |-> game.discard_pile \o discard]
                  ELSE game]

put_card_into_play(game, player_id, played_card) ==
    LET hand == game.players[player_id].cards_in_hand
        kept(card) == card # played_card
        retained == SelectSeq(hand, kept)
        ok == Len(hand) = Len(retained) + 1
    IN  [ok |-> ok,
         game |-> IF ok
                  THEN [players |-> [game.players EXCEPT
                                        ![player_id].cards_in_hand = retained,
                                        ![player_id].played_cards = Append(@, played_card)],
                        draw_deck |-> game.draw_deck,
                        discard_pile |-> game.discard_pile]
                  ELSE game]

\* The operation is executed on the Game and on its replay; the run aborts
\* when either execution trips an assert.
ExecuteOnCardZones(executed, replayed) ==
    /\ aborted' = ~(executed.ok /\ replayed.ok)
    /\ players' = IF aborted' THEN players ELSE executed.game.players
    /\ draw_deck' = IF aborted' THEN draw_deck ELSE executed.game.draw_deck
    /\ discard_pile' = IF aborted' THEN discard_pile ELSE executed.game.discard_pile
    /\ replay' = IF aborted' THEN replay ELSE replayed.game
    /\ UNCHANGED boardVars

DrawCards(player_id, count) ==
    /\ ~aborted
    /\ \E shuffled \in Shuffles(discard_pile), replay_shuffled \in Shuffles(replay.discard_pile) :
          LET executed == draw_cards(CardZones, player_id, count, shuffled)
              replayed == draw_cards(replay, player_id, count, replay_shuffled)
          IN  /\ ExecuteOnCardZones(executed, replayed)
              /\ last_call' = [op |-> "DrawCards",
                               result |-> IF executed.ok /\ replayed.ok THEN "done" ELSE "abort",
                               player_id |-> player_id, count |-> count,
                               reshuffles |-> executed.reshuffles]

DiscardCards(player_id, discard) ==
    /\ ~aborted
    /\ LET executed == discard_cards(CardZones, player_id, discard)
           replayed == discard_cards(replay, player_id, discard)
       IN  /\ ExecuteOnCardZones(executed, replayed)
           /\ last_call' = [op |-> "DiscardCards",
                            result |-> IF executed.ok /\ replayed.ok THEN "done" ELSE "abort",
                            player_id |-> player_id, discard |-> discard]

PutCardIntoPlay(player_id, played_card) ==
    /\ ~aborted
    /\ LET executed == put_card_into_play(CardZones, player_id, played_card)
           replayed == put_card_into_play(replay, player_id, played_card)
       IN  /\ ExecuteOnCardZones(executed, replayed)
           /\ last_call' = [op |-> "PutCardIntoPlay",
                            result |-> IF executed.ok /\ replayed.ok THEN "done" ELSE "abort",
                            player_id |-> player_id, played_card |-> played_card]

(***************************************************************************)
(* MarsBoard::new (board.rs 158-189): the assert that no location is held  *)
(* by two occupancy indexes.                                               *)
(***************************************************************************)
occupied_locations(board) ==
    (DOMAIN board.cities)
        \cup {OnMars(c) : c \in board.oceans}
        \cup {OnMars(c) : c \in DOMAIN board.greeneries}
        \cup {OnMars(c) : c \in DOMAIN board.special_tiles}

MarsBoard_new_accepts(board) ==
    Cardinality(occupied_locations(board))
        = Cardinality(DOMAIN board.cities) + Cardinality(board.oceans)
            + Cardinality(DOMAIN board.greeneries) + Cardinality(DOMAIN board.special_tiles)

(***************************************************************************)
(* Game::execute_operation, the placement arms (game.rs 571-624).  Each    *)
(* *_asserts operator is the conjunction of the arm's assert!s.            *)
(***************************************************************************)
\* The ocean ceiling: game.rs 620 reads MarsBoard::MAX_OCEANS, whose definition
\* is not part of the source at hand; 9 is the ceiling of the board game.
MAX_OCEANS == 9

PlaceCityTile_asserts(board, location) ==
    /\ location.kind = "OnMars" =>
          /\ location.c \notin DOMAIN board.greeneries
          /\ location.c \notin DOMAIN board.special_tiles
          /\ location.c \notin board.oceans
    /\ location \notin DOMAIN board.cities

PlaceGreenery_asserts(board, coordinates) ==
    /\ OnMars(coordinates) \notin DOMAIN board.cities
    /\ coordinates \notin DOMAIN board.special_tiles
    /\ coordinates \notin board.oceans
    /\ coordinates \notin DOMAIN board.greeneries

PlaceSpecialTile_asserts(board, coordinates) ==
    /\ OnMars(coordinates) \notin DOMAIN board.cities
    /\ coordinates \notin DOMAIN board.greeneries
    /\ coordinates \notin board.oceans
    /\ coordinates \notin DOMAIN board.special_tiles

\* Variant of the PlaceOcean asserts without the ocean ceiling.
PlaceOcean_asserts_without_ceiling(board, coordinates) ==
    /\ OnMars(coordinates) \notin DOMAIN board.cities
    /\ coordinates \notin DOMAIN board.greeneries
    /\ coordinates \notin DOMAIN board.special_tiles
    /\ coordinates \notin board.oceans

PlaceOcean_asserts(board, coordinates) ==
    /\ OnMars(coordinates) \notin DOMAIN board.cities
    /\ coordinates \notin DOMAIN board.greeneries
    /\ coordinates \notin DOMAIN board.special_tiles
    /\ Cardinality(board.oceans) < MAX_OCEANS
    /\ coordinates \notin board.oceans

PlaceCityTile(player_id, city_kind, location) ==
    /\ ~aborted
    /\ LET ok == PlaceCityTile_asserts(Board, location)
       IN  /\ last_call' = [op |-> "PlaceCityTile", result |-> IF ok THEN "done" ELSE "abort",
                            location |-> location]
           /\ aborted' = ~ok
           /\ cities' = IF ok
                        THEN MapInsert(cities, location, [kind |-> city_kind, owner |-> player_id])
                        ELSE cities
    /\ UNCHANGED <<oceans, greeneries, special_tiles, oxygen, temperature>>
    /\ UNCHANGED <<gameVars, replay>>

PlaceGreenery(player_id, coordinates) ==
    /\ ~aborted
    /\ LET ok == PlaceGreenery_asserts(Board, coordinates)
       IN  /\ last_call' = [op |-> "PlaceGreenery", result |-> IF ok THEN "done" ELSE "abort",
                            location |-> OnMars(coordinates)]
           /\ aborted' = ~ok
           /\ greeneries' = IF ok THEN MapInsert(greeneries, coordinates, player_id)
                            ELSE greeneries
    /\ UNCHANGED <<cities, oceans, special_tiles, oxygen, temperature>>
    /\ UNCHANGED <<gameVars, replay>>

PlaceSpecialTile(player_id, tile, coordinates) ==
    /\ ~aborted
    /\ LET ok == PlaceSpecialTile_asserts(Board, coordinates)
       IN  /\ last_call' = [op |-> "PlaceSpecialTile", result |-> IF ok THEN "done" ELSE "abort",
                            location |-> OnMars(coordinates)]
           /\ aborted' = ~ok
           /\ special_tiles' = IF ok
                               THEN MapInsert(special_tiles, coordinates,
                                              [kind |-> tile, owner |-> player_id])
                               ELSE special_tiles
    /\ UNCHANGED <<cities, oceans, greeneries, oxygen, temperature>>
    /\ UNCHANGED <<gameVars, replay>>

PlaceOcean(coordinates) ==
    /\ ~aborted
    /\ LET ok == PlaceOcean_asserts(Board, coordinates)
       IN  /\ last_call' = [op |-> "PlaceOcean", result |-> IF ok THEN "done" ELSE "abort",
                            location |-> OnMars(coordinates)]
           /\ aborted' = ~ok
           /\ oceans' = IF ok THEN oceans \cup {coordinates} ELSE oceans
    /\ UNCHANGED <<cities, greeneries, special_tiles, oxygen, temperature>>
    /\ UNCHANGED <<gameVars, replay>>

(***************************************************************************)
(* Game::execute_operation, RaiseTemperature and RaiseOxygen (game.rs      *)
(* 625-634).  The arms read MarsBoard::MAX_TEMPERATURE, TEMPERATURE_INCREMENT, *)
(* MAX_OXYGEN and OXYGEN_INCREMENT, whose definitions are not part of the  *)
(* source at hand; the values are those of the board game, which agree     *)
(* with the ranges 0..=MAX_OXYGEN and MIN_TEMPERATURE..=MAX_TEMPERATURE     *)
(* stepped by a fixed increment.                                           *)
(***************************************************************************)
MAX_TEMPERATURE == 8
TEMPERATURE_INCREMENT == 2
MAX_OXYGEN == 14
OXYGEN_INCREMENT == 1

\* Variant of the RaiseTemperature assert that lets the ceiling itself through.
RaiseTemperature_asserts_up_to_ceiling(board) == board.temperature <= MAX_TEMPERATURE

\* assert!(self.board.temperature < MarsBoard::MAX_TEMPERATURE)
RaiseTemperature_asserts(board) == board.temperature < MAX_TEMPERATURE

\* assert!(self.board.oxygen < MarsBoard::MAX_OXYGEN)
RaiseOxygen_asserts(board) == board.oxygen < MAX_OXYGEN

RaiseTemperature ==
    /\ ~aborted
    /\ LET ok == RaiseTemperature_asserts(Board)
       IN  /\ last_call' = [op |-> "RaiseTemperature",
                            result |-> IF ok THEN "done" ELSE "abort"]
           /\ aborted' = ~ok
           /\ temperature' = IF ok THEN temperature + TEMPERATURE_INCREMENT ELSE temperature
    /\ UNCHANGED <<cities, oceans, greeneries, special_tiles, oxygen>>
    /\ UNCHANGED <<gameVars, replay>>

RaiseOxygen ==
    /\ ~aborted
    /\ LET ok == RaiseOxygen_asserts(Board)
       IN  /\ last_call' = [op |-> "RaiseOxygen", result |-> IF ok THEN "done" ELSE "abort"]
           /\ aborted' = ~ok
           /\ oxygen' = IF ok THEN oxygen + OXYGEN_INCREMENT ELSE oxygen
    /\ UNCHANGED <<cities, oceans, greeneries, special_tiles, temperature>>
    /\ UNCHANGED <<gameVars, replay>>

\* Coordinates::is_in_bounds, TileLocation::neighbors_within_bounds and
\* MarsBoard::count_adjacent_oceans asked about one location.
QueryNeighbors(location) ==
    /\ ~aborted
    /\ last_call' = [op |-> "neighbors_within_bounds", result |-> "done",
                     location |-> location,
                     in_bounds |-> location.kind = "OnMars" /\ is_in_bounds(location.c),
                     neighbors |-> neighbors_within_bounds(location),
                     adjacent_oceans |-> count_adjacent_oceans(Board, location)]
    /\ UNCHANGED <<boardVars, gameVars, replay, aborted>>

(***************************************************************************)
(* The snapshot of a Game (game.rs 468-474) through the derived Serialize  *)
(* and Deserialize of Game, PlayerState (game.rs 25-42) and MarsBoard      *)
(* (board.rs 140-153), in the JSON of serde_json, the format the           *)
(* repository reads its cards with (card.rs 389).  A map becomes an        *)
(* object, whose keys are strings: a unit variant gives its name, PlayerId *)
(* (a newtype of usize) its number in quotes, and a key that is a struct,  *)
(* a tuple or a variant with data is refused ("key must be a string").     *)
(***************************************************************************)
\* The key of an object: Some(string), or None when the key is refused.
map_key(key_type, key) ==
    CASE key_type = "Resource" -> <<key>>
      [] key_type = "PlayerId" -> <<ToString(key)>>
      [] OTHER -> <<>>

\* A map as an object: the pairs of key string and value.
to_json_object(map, key_type) ==
    [err |-> \E key \in DOMAIN map : map_key(key_type, key) = <<>>,
     entries |-> {<<map_key(key_type, key), map[key]>> : key \in
                     {k \in DOMAIN map : map_key(key_type, k) # <<>>}}]

\* The map of an object whose keys are read back as one of `keys`.
from_json_object(object, key_type, keys) ==
    LET read == {entry[1][1] : entry \in object.entries}
        key_of(string) == CHOOSE key \in keys : map_key(key_type, key) = <<string>>
    IN  [key \in {key_of(string) : string \in read} |->
            (CHOOSE entry \in object.entries : entry[1] = map_key(key_type, key))[2]]

player_to_json(player) ==
    [player EXCEPT !.resources = to_json_object(@, "Resource"),
                   !.production = to_json_object(@, "Resource"),
                   !.card_resources = to_json_object(@, "(Card, CardResource)")]

player_from_json(json) ==
    [json EXCEPT !.resources = from_json_object(@, "Resource", Resources),
                 !.production = from_json_object(@, "Resource", Resources),
                 !.card_resources = from_json_object(@, "(Card, CardResource)", {})]

\* serde_json::to_value(&game): `err` when some map key is refused.
game_to_json(game) ==
    LET players_json == to_json_object([p \in DOMAIN game.players |->
                                           player_to_json(game.players[p])], "PlayerId")
        spaces_json == to_json_object(game.board.spaces, "TileLocation")
        cities_json == to_json_object(game.board.cities, "TileLocation")
        greeneries_json == to_json_object(game.board.greeneries, "Coordinates")
        special_tiles_json == to_json_object(game.board.special_tiles, "Coordinates")
    IN  [err |-> \/ players_json.err
                 \/ \E p \in DOMAIN game.players :
                        \/ player_to_json(game.players[p]).resources.err
                        \/ player_to_json(game.players[p]).production.err
                        \/ player_to_json(game.players[p]).card_resources.err
                 \/ spaces_json.err \/ cities_json.err
                 \/ greeneries_json.err \/ special_tiles_json.err,
         board |-> [spaces |-> spaces_json, cities |-> cities_json,
                    oceans |-> game.board.oceans, greeneries |-> greeneries_json,
                    special_tiles |-> special_tiles_json,
                    oxygen |-> game.board.oxygen, temperature |-> game.board.temperature],
         players |-> players_json,
         draw_deck |-> game.draw_deck,
         discard_pile |-> game.discard_pile]

\* serde_json::from_value of what game_to_json gave without error.
game_from_json(json) ==
    LET players_read == from_json_object(json.players, "PlayerId", PlayerIds)
    IN  [board |-> [spaces |-> from_json_object(json.board.spaces, "TileLocation", {}),
                    cities |-> from_json_object(json.board.cities, "TileLocation", {}),
                    oceans |-> json.board.oceans,
                    greeneries |-> from_json_object(json.board.greeneries, "Coordinates", {}),
                    special_tiles |->
                        from_json_object(json.board.special_tiles, "Coordinates", {}),
                    oxygen |-> json.board.oxygen, temperature |-> json.board.temperature],
         players |-> [p \in DOMAIN players_read |-> player_from_json(players_read[p])],
         draw_deck |-> json.draw_deck,
         discard_pile |-> json.discard_pile]

\* The Game whose board has the spaces map board_spaces.
GameWith(board_spaces) ==
    [board |-> [spaces |-> board_spaces, cities |-> cities, oceans |-> oceans,
                greeneries |-> greeneries, special_tiles |-> special_tiles,
                oxygen |-> oxygen, temperature |-> temperature],
     players |-> players, draw_deck |-> draw_deck, discard_pile |-> discard_pile]

\* The Game is serialized and, when that gave no error, read back.
Snapshot(board_spaces) ==
    /\ ~aborted
    /\ LET game == GameWith(board_spaces)
           json == game_to_json(game)
       IN  last_call' = [op |-> "snapshot", result |-> IF json.err THEN "Err" ELSE "Ok",
                         game |-> game,
                         restored |-> IF json.err THEN <<>> ELSE <<game_from_json(json)>>]
    /\ UNCHANGED <<boardVars, gameVars, replay, aborted>>

\* MarsBoard::get_tile_status called on the game's board.
GetTileStatus(location) ==
    /\ ~aborted
    /\ last_call' = [op |-> "get_tile_status", result |-> "done", location |-> location,
                     status |-> get_tile_status(Board, location)]
    /\ UNCHANGED <<boardVars, gameVars, replay, aborted>>

\* A spaces map as MarsBoard::new accepts it: the base game's spaces with
\* megacredit placement bonuses on the space at (4, -1).
MegacreditSpaces ==
    [spaces EXCEPT ![OnMars(<<4, -1>>)] =
        BoardSpace(OnMars(<<4, -1>>), <<Designation("Land", "None")>>,
                   <<GainResource("Steel", 1), GainResource("Megacredits", 3),
                     GainResource("Megacredits", 1)>>)]

SpacesChoices == {spaces, MegacreditSpaces}

\* MarsBoard::get_placement_bonuses called on a board whose spaces map is
\* board_spaces and whose indexes are the game board's.
GetPlacementBonuses(board_spaces, location) ==
    /\ ~aborted
    /\ LET bonuses == get_placement_bonuses(Board, board_spaces, location)
       IN  /\ last_call' = [op |-> "get_placement_bonuses",
                            result |-> IF bonuses = "abort" THEN "abort" ELSE "done",
                            location |-> location,
                            placement_bonus |-> board_spaces[location].placement_bonus,
                            bonuses |-> bonuses]
           /\ aborted' = (bonuses = "abort")
    /\ UNCHANGED <<boardVars, gameVars, replay>>

(***************************************************************************)
(* SpecBoard: the board of make_base_game_board (board.rs 582-725) under   *)
(* any sequence of placement operations and can_place_city calls.          *)
(***************************************************************************)
NoCall == [op |-> "none", result |-> "none"]

\* Restriction lists tried while tiles accumulate.
BoardRestrictionLists ==
    {<<>>, <<Restriction("LandTile")>>, <<Restriction("NotNextToAnyOtherTile")>>}

InitBoard ==
    /\ cities = EmptyMap
    /\ oceans = {}
    /\ greeneries = EmptyMap
    /\ special_tiles = EmptyMap
    /\ oxygen = 0
    /\ temperature = -30
    /\ players = [p \in PlayerIds |-> DefaultPlayer(p)]
    /\ draw_deck = <<>>
    /\ discard_pile = <<>>
    /\ replay = CardZones
    /\ aborted = FALSE
    /\ last_call = NoCall

\* The run is cut off once MaxTiles tiles lie on the board.
BoardOpen == TileCount < MaxTiles

NextBoard ==
    \/ \E p \in PlayerIds, k \in CityKinds, l \in PlacementLocations :
           BoardOpen /\ PlaceCityTile(p, k, l)
    \/ \E p \in PlayerIds, c \in PlacementCoordinates : BoardOpen /\ PlaceGreenery(p, c)
    \/ \E p \in PlayerIds, t \in SpecialTiles, c \in PlacementCoordinates :
           BoardOpen /\ PlaceSpecialTile(p, t, c)
    \/ \E c \in PlacementCoordinates : BoardOpen /\ PlaceOcean(c)
    \/ \E p \in PlayerIds, l \in PlacementLocations, k \in CityKinds,
          rs \in BoardRestrictionLists : BoardOpen /\ CanPlaceCity(p, l, k, rs)

SpecBoard == InitBoard /\ [][NextBoard]_vars

(***************************************************************************)
(* SpecLookup: get_tile_status and get_placement_bonuses on the boards     *)
(* that oceans, greeneries, special tiles and unrestricted can_place_city  *)
(* calls build, a city on top of another tile included.                    *)
(***************************************************************************)
\* A lookup ends the run: it leaves the board as it is.
Queried == last_call.op \in {"get_tile_status", "get_placement_bonuses"}

LookupOpen == BoardOpen /\ ~Queried

NextLookup ==
    \/ \E c \in PlacementCoordinates : LookupOpen /\ PlaceOcean(c)
    \/ \E c \in PlacementCoordinates : LookupOpen /\ PlaceGreenery(2, c)
    \/ \E c \in PlacementCoordinates : LookupOpen /\ PlaceSpecialTile(1, "NuclearZone", c)
    \/ \E l \in PlacementLocations : LookupOpen /\ CanPlaceCity(1, l, "RegularCity", <<>>)
    \/ \E l \in PlacementLocations : ~Queried /\ GetTileStatus(l)
    \/ \E board_spaces \in SpacesChoices, l \in PlacementLocations :
           ~Queried /\ GetPlacementBonuses(board_spaces, l)

SpecLookup == InitBoard /\ [][NextLookup]_vars

(***************************************************************************)
(* SpecOceans: the placement operations of execute_operation on the patch, *)
(* on boards that already hold up to MAX_OCEANS oceans elsewhere.          *)
(***************************************************************************)
\* Coordinates of the two southern rows, away from the patch.
SouthernCoordinates ==
    <<<<4, -8>>, <<5, -8>>, <<6, -8>>, <<7, -8>>, <<8, -8>>,
      <<3, -7>>, <<4, -7>>, <<5, -7>>, <<6, -7>>>>

InitOceans ==
    /\ cities = EmptyMap
    /\ \E placed \in 0..MAX_OCEANS : oceans = {SouthernCoordinates[i] : i \in 1..placed}
    /\ greeneries = EmptyMap
    /\ special_tiles = EmptyMap
    /\ oxygen = 0
    /\ temperature = -30
    /\ players = [p \in PlayerIds |-> DefaultPlayer(p)]
    /\ draw_deck = <<>>
    /\ discard_pile = <<>>
    /\ replay = CardZones
    /\ aborted = FALSE
    /\ last_call = NoCall

NextOceans ==
    \/ \E l \in PlacementLocations : PlaceCityTile(1, "RegularCity", l)
    \/ \E c \in PlacementCoordinates : PlaceGreenery(2, c)
    \/ \E c \in PlacementCoordinates : PlaceSpecialTile(1, "NuclearZone", c)
    \/ \E c \in PlacementCoordinates \cup {SouthernCoordinates[1]} : PlaceOcean(c)

SpecOceans == InitOceans /\ [][NextOceans]_vars

(***************************************************************************)
(* SpecParameters: RaiseTemperature and RaiseOxygen in any order on the    *)
(* base game board, up to the first abort.                                 *)
(***************************************************************************)
NextParameters ==
    \/ RaiseTemperature
    \/ RaiseOxygen

SpecParameters == InitBoard /\ [][NextParameters]_vars

(***************************************************************************)
(* SpecCardResources: ChangeCardResource on the cards with actions, for    *)
(* both players, with quantities of up to MaxQuantity.                     *)
(***************************************************************************)
ChangedCardResources == {"Microbe", "Animal"}

NextCardResources ==
    \E p \in PlayerIds, card \in ResourceCardNames, card_resource \in ChangedCardResources,
       amount \in (-MaxDelta)..MaxDelta :
        /\ resources_present(players[p], card, card_resource) + amount <= MaxQuantity
        /\ ChangeCardResource(p, card, card_resource, amount)

SpecCardResources == InitBoard /\ [][NextCardResources]_vars

(***************************************************************************)
(* SpecTags: one query of both tag counts on a player built with up to     *)
(* MaxPlayed played cards, events and Wild tags among them.                *)
(***************************************************************************)
TagPool == {"Wild Tag Sample", "Wild Event Sample", "Lichen", "Regolith Eaters"}

InitTags ==
    /\ cities = EmptyMap
    /\ oceans = {}
    /\ greeneries = EmptyMap
    /\ special_tiles = EmptyMap
    /\ oxygen = 0
    /\ temperature = -30
    /\ draw_deck = <<>>
    /\ discard_pile = <<>>
    /\ \E played_cards \in SeqsUpTo(TagPool, MaxPlayed) :
          players = [p \in PlayerIds |->
                       IF p = 1
                       THEN PlayerStateBuilder_build(
                                with_played_cards(PlayerStateBuilder_new(p), played_cards))
                       ELSE DefaultPlayer(p)]
    /\ replay = [players |-> players, draw_deck |-> draw_deck, discard_pile |-> discard_pile]
    /\ aborted = FALSE
    /\ last_call = NoCall

NextTags ==
    \E p \in PlayerIds, tag_kind \in CardTags :
        last_call = NoCall /\ ActiveTagCounts(p, tag_kind)

SpecTags == InitTags /\ [][NextTags]_vars

(***************************************************************************)
(* SpecGeometry: one geometry query about a location on the board, up to   *)
(* GeometryMargin beyond its bounds, or off Mars, with or without oceans   *)
(* next to the coordinates (0, 0).                                         *)
(***************************************************************************)
GeometryLocations ==
    {OnMars(<<x, y>>) : x \in (BOUNDS_MIN_X - GeometryMargin)..(BOUNDS_MAX_X + GeometryMargin),
                        y \in (BOUNDS_MIN_Y - GeometryMargin)..(BOUNDS_MAX_Y + GeometryMargin)}
        \cup {OffMars("GanymedeColony"), OffMars("PhobosSpaceHaven")}

InitGeometry ==
    /\ cities = EmptyMap
    /\ oceans \in {{}, {<<1, -1>>, <<1, 0>>}, {<<4, -4>>, <<5, -4>>, <<3, -4>>}}
    /\ greeneries = EmptyMap
    /\ special_tiles = EmptyMap
    /\ oxygen = 0
    /\ temperature = -30
    /\ players = [p \in PlayerIds |-> DefaultPlayer(p)]
    /\ draw_deck = <<>>
    /\ discard_pile = <<>>
    /\ replay = CardZones
    /\ aborted = FALSE
    /\ last_call = NoCall

NextGeometry ==
    \E location \in GeometryLocations : last_call = NoCall /\ QueryNeighbors(location)

SpecGeometry == InitGeometry /\ [][NextGeometry]_vars

(***************************************************************************)
(* SpecPlayer: the economy of a two-player game.  Player 1 is built with   *)
(* with_resources and with_production, its megacredit production near the  *)
(* floor -terraform_rating; player 2 is PlayerStateBuilder::new(2).        *)
(***************************************************************************)
\* The card whose action MarkCardActionUsed taps.
ActionCards == {"Development Center"}

\* Players whose balances ChangeResources, ChangeProduction,
\* RaiseTerraformRating and advance_generation are applied to.
EconomyPlayers == {1}

ChangedResources == {"Megacredits", "Energy"}

\* The BTreeMaps handed to ChangeResources and ChangeProduction.
ResourceChanges ==
    {[r \in {x} |-> d] : x \in ChangedResources, d \in {-1, 1}}
        \cup {[r \in {"Steel"} |-> 0],
              [r \in {"Megacredits", "Energy"} |-> IF r = "Energy" THEN 1 ELSE -1]}

BuilderResources ==
    {ResourceMap(m, 1, 0, 0, e, 0) : m \in {0, 1}, e \in {0, 1}}

\* Arguments of with_production.
BuilderProductions ==
    {ResourceMap(m, 0, 0, 0, e, 0) :
        m \in {-DEFAULT_STARTING_TERRAFORM_RATING - 1, -DEFAULT_STARTING_TERRAFORM_RATING,
               -DEFAULT_STARTING_TERRAFORM_RATING + 1},
        e \in {0, 1}}

InitPlayer ==
    /\ cities = EmptyMap
    /\ oceans = {}
    /\ greeneries = EmptyMap
    /\ special_tiles = EmptyMap
    /\ oxygen = 0
    /\ temperature = -30
    /\ \E resources \in BuilderResources, production \in BuilderProductions :
          /\ with_production_accepts(production)
          /\ players = [p \in PlayerIds |->
                          IF p = 1
                          THEN PlayerStateBuilder_build(
                                   with_production(
                                       with_resources(PlayerStateBuilder_new(p), resources),
                                       production))
                          ELSE DefaultPlayer(p)]
    /\ draw_deck = <<>>
    /\ discard_pile = <<>>
    /\ replay = CardZones
    /\ aborted = FALSE
    /\ last_call = NoCall

BalancesWithin(balances, bound) == \A r \in Resources : balances[r] <= bound

\* Megacredit production is kept within MaxProduction of its floor.
ProductionWithin(production, bound) ==
    /\ \A r \in Resources \ {"Megacredits"} : production[r] <= bound
    /\ production["Megacredits"] <= bound - DEFAULT_STARTING_TERRAFORM_RATING

NextPlayer ==
    \/ \E p \in EconomyPlayers, changes \in ResourceChanges :
          /\ BalancesWithin([r \in Resources |-> changed_value(players[p].resources, changes, r)],
                            MaxBalance)
          /\ ChangeResources(p, changes)
    \/ \E p \in EconomyPlayers, changes \in ResourceChanges :
          /\ ProductionWithin([r \in Resources |-> changed_value(players[p].production, changes, r)],
                              MaxProduction)
          /\ ChangeProduction(p, changes)
    \/ \E p \in EconomyPlayers :
          /\ players[p].terraform_rating < DEFAULT_STARTING_TERRAFORM_RATING + MaxRatingGain
          /\ RaiseTerraformRating(p, 1)
    \/ \E p \in PlayerIds, card \in ActionCards : MarkCardActionUsed(p, card)
    \/ ResetCardActions
    \/ \E p \in EconomyPlayers :
          /\ BalancesWithin(players[p].resources, MaxBalance)
          /\ AdvanceGeneration(p)

SpecPlayer == InitPlayer /\ [][NextPlayer]_vars

(***************************************************************************)
(* SpecEconomy: the operations of SpecPlayer on a player built with a      *)
(* megacredit production of at least -terraform_rating.                    *)
(***************************************************************************)
InitEconomy ==
    /\ InitPlayer
    /\ \A p \in EconomyPlayers :
          players[p].production["Megacredits"] >= -players[p].terraform_rating

SpecEconomy == InitEconomy /\ [][NextPlayer]_vars

(***************************************************************************)
(* SpecProgress: the operations that move the terraform rating, the        *)
(* oxygen, the temperature and the oceans, with advance_generation and the *)
(* resource changes in between, on the base game board.                    *)
(***************************************************************************)
NextProgress ==
    \/ \E c \in PlacementCoordinates : PlaceOcean(c)
    \/ /\ temperature < -30 + MaxRaises * TEMPERATURE_INCREMENT
       /\ RaiseTemperature
    \/ /\ oxygen < MaxRaises * OXYGEN_INCREMENT
       /\ RaiseOxygen
    \/ \E p \in EconomyPlayers :
          /\ players[p].terraform_rating < DEFAULT_STARTING_TERRAFORM_RATING + MaxRatingGain
          /\ RaiseTerraformRating(p, 1)
    \/ \E p \in EconomyPlayers :
          /\ BalancesWithin(players[p].resources, MaxBalance)
          /\ AdvanceGeneration(p)
    \/ \E p \in EconomyPlayers :
          /\ BalancesWithin(players[p].resources, MaxBalance)
          /\ ChangeResources(p, [r \in {"Megacredits"} |-> -1])

SpecProgress == InitBoard /\ [][NextProgress]_vars

(***************************************************************************)
(* SpecSnapshot: a snapshot of the Game after placements on the patch,     *)
(* resource and card-resource changes, on the base game's spaces or on a   *)
(* board without spaces.                                                   *)
(***************************************************************************)
Snapshotted == last_call.op = "snapshot"

NextSnapshot ==
    \/ \E c \in PlacementCoordinates : ~Snapshotted /\ PlaceOcean(c)
    \/ \E c \in PlacementCoordinates : ~Snapshotted /\ PlaceGreenery(2, c)
    \/ \E changes \in ResourceChanges :
          /\ ~Snapshotted
          /\ BalancesWithin([r \in Resources |->
                                changed_value(players[1].resources, changes, r)], MaxBalance)
          /\ ChangeResources(1, changes)
    \/ /\ ~Snapshotted
       /\ resources_present(players[1], "Predators", "Animal") < MaxQuantity
       /\ ChangeCardResource(1, "Predators", "Animal", 1)
    \/ \E board_spaces \in {EmptyMap, spaces} : ~Snapshotted /\ Snapshot(board_spaces)

SpecSnapshot == InitBoard /\ [][NextSnapshot]_vars

(***************************************************************************)
(* SpecCards: DrawCards, DiscardCards and PutCardIntoPlay on a two-player  *)
(* Game whose deck, discard pile and first hand hold up to MaxCards cards, *)
(* identical copies included.                                              *)
(***************************************************************************)
CardPool == {"Micro-Mills", "Asteroid"}

InitCards ==
    /\ cities = EmptyMap
    /\ oceans = {}
    /\ greeneries = EmptyMap
    /\ special_tiles = EmptyMap
    /\ oxygen = 0
    /\ temperature = -30
    /\ \E deck \in SeqsUpTo(CardPool, MaxCards), pile \in SeqsUpTo(CardPool, MaxCards),
          hand \in SeqsUpTo(CardPool, MaxCards) :
          /\ Len(deck) + Len(pile) + Len(hand) <= MaxCards
          /\ draw_deck = deck
          /\ discard_pile = pile
          /\ players = [p \in PlayerIds |->
                          IF p = 1
                          THEN PlayerStateBuilder_build(
                                   with_cards_in_hand(PlayerStateBuilder_new(p), hand))
                          ELSE DefaultPlayer(p)]
    /\ replay = [players |-> players, draw_deck |-> draw_deck, discard_pile |-> discard_pile]
    /\ aborted = FALSE
    /\ last_call = NoCall

NextCards ==
    \/ \E p \in PlayerIds, count \in 0..MaxDraw : DrawCards(p, count)
    \/ \E p \in PlayerIds, discard \in SeqsUpTo(CardPool, MaxDraw) : DiscardCards(p, discard)
    \/ \E p \in PlayerIds, card \in CardPool : PutCardIntoPlay(p, card)

SpecCards == InitCards /\ [][NextCards]_vars

(***************************************************************************)
(* SpecEffects: PutCardIntoPlay and AddEffect on players built with played *)
(* cards and a hand, with and without a card that carries an effect.       *)
(***************************************************************************)
EffectCards == {"Advanced Alloys", "Micro-Mills"}

\* The CardEffect values handed to AddEffect.
EffectPool == {IncreasedMetalsValue(1), AnyCardDiscount(1)}

InitEffects ==
    /\ cities = EmptyMap
    /\ oceans = {}
    /\ greeneries = EmptyMap
    /\ special_tiles = EmptyMap
    /\ oxygen = 0
    /\ temperature = -30
    /\ draw_deck = <<>>
    /\ discard_pile = <<>>
    /\ \E played \in SeqsUpTo(EffectCards, 1), hand \in SeqsUpTo(EffectCards, 2) :
          players = [p \in PlayerIds |->
                       IF p = 1
                       THEN PlayerStateBuilder_build(
                                with_cards_in_hand(
                                    with_played_cards(PlayerStateBuilder_new(p), played),
                                    hand))
                       ELSE DefaultPlayer(p)]
    /\ replay = [players |-> players, draw_deck |-> draw_deck, discard_pile |-> discard_pile]
    /\ aborted = FALSE
    /\ last_call = NoCall

NextEffects ==
    \/ \E p \in PlayerIds, card \in EffectCards : PutCardIntoPlay(p, card)
    \/ \E p \in PlayerIds, effect \in EffectPool :
          /\ Len(players[p].effects) < MaxEffects
          /\ AddEffect(p, effect)

SpecEffects == InitEffects /\ [][NextEffects]_vars

(***************************************************************************)
(* SpecPurchase: purchase_cards calls on players built with a megacredit   *)
(* balance of up to MaxPurse.                                              *)
(***************************************************************************)
InitPurchase ==
    /\ cities = EmptyMap
    /\ oceans = {}
    /\ greeneries = EmptyMap
    /\ special_tiles = EmptyMap
    /\ oxygen = 0
    /\ temperature = -30
    /\ draw_deck = <<>>
    /\ discard_pile = <<>>
    /\ \E megacredits \in 0..MaxPurse, hand \in SeqsUpTo(CardPool, 1) :
          players = [p \in PlayerIds |->
                       IF p = 1
                       THEN PlayerStateBuilder_build(
                                with_cards_in_hand(
                                    with_resources(PlayerStateBuilder_new(p),
                                                   ResourceMap(megacredits, 1, 0, 0, 0, 0)),
                                    hand))
                       ELSE DefaultPlayer(p)]
    /\ replay = [players |-> players, draw_deck |-> draw_deck, discard_pile |-> discard_pile]
    /\ aborted = FALSE
    /\ last_call = NoCall

NextPurchase ==
    \E p \in PlayerIds, cards \in SeqsUpTo(CardPool, MaxDraw) :
        /\ Len(players[p].cards_in_hand) + Len(cards) <= MaxCards
        /\ PurchaseCards(p, cards)

SpecPurchase == InitPurchase /\ [][NextPurchase]_vars

(***************************************************************************)
(* SpecPlay: can_play_card calls of either player for every catalog card,  *)
(* on boards and players drawn around the thresholds of the catalog's      *)
(* requirements and costs.                                                 *)
(***************************************************************************)
\* Ocean areas of the base game board.
OceanAreas == <<<<1, 0>>, <<3, 0>>, <<4, 0>>, <<5, -1>>, <<5, -4>>, <<6, -4>>>>

PlayOceans == {{OceanAreas[i] : i \in 1..n} : n \in {0, 4, 6}}

PlayGreeneries == {EmptyMap} \cup {MapInsert(EmptyMap, <<4, -1>>, p) : p \in PlayerIds}

PlayedCardChoices ==
    {<<>>, <<"Advanced Alloys", "Development Center", "Asteroid">>,
     <<"Advanced Alloys", "Development Center", "Breathing Filters">>}

PlayResources ==
    {ResourceMap(m, s, t, 0, 0, 0) : m \in {0, 7, 13}, s \in {0, 2}, t \in {0, 3}}

PlayProductions == {ResourceMap(0, 0, t, 0, 0, 0) : t \in {0, 1}}

InitPlay ==
    /\ cities = EmptyMap
    /\ special_tiles = EmptyMap
    /\ oceans \in PlayOceans
    /\ greeneries \in PlayGreeneries
    /\ oxygen \in {5, 7}
    /\ temperature \in {-30, -24, -10}
    /\ MarsBoard_new_accepts(Board)
    /\ draw_deck = <<>>
    /\ discard_pile = <<>>
    /\ \E resources \in PlayResources, production \in PlayProductions,
          played_cards \in PlayedCardChoices :
          players = [p \in PlayerIds |->
                       IF p = 1
                       THEN PlayerStateBuilder_build(
                                with_played_cards(
                                    with_production(
                                        with_resources(PlayerStateBuilder_new(p), resources),
                                        production),
                                    played_cards))
                       ELSE DefaultPlayer(p)]
    /\ replay = [players |-> players, draw_deck |-> draw_deck, discard_pile |-> discard_pile]
    /\ aborted = FALSE
    /\ last_call = NoCall

NextPlay ==
    \E p \in PlayerIds, card_name \in PlayableCardNames :
        last_call = NoCall /\ CanPlayCard(p, card_name)

SpecPlay == InitPlay /\ [][NextPlay]_vars

(***************************************************************************)
(* SpecSim: get_possible_generation_plays for a player built with up to    *)
(* MaxPurse megacredits and at most one card in hand, offered up to        *)
(* MaxOffered cards.                                                       *)
(***************************************************************************)
OfferPool == {"Dust Seals", "Micro-Mills", "Lichen"}

\* Ten different cards, and the same with an eleventh.
TenOfferedCards ==
    <<"Micro-Mills", "Dust Seals", "Power Plant", "Lichen", "Arctic Algae", "Algae",
      "Breathing Filters", "Colonizer Training Camp", "Ecological Zone", "Lightning Harvest">>

LongOffers == {TenOfferedCards, TenOfferedCards \o <<"Kelp Farming">>}

InitSim ==
    /\ cities = EmptyMap
    /\ oceans = {}
    /\ greeneries = EmptyMap
    /\ special_tiles = EmptyMap
    /\ oxygen = 0
    /\ temperature = -30
    /\ draw_deck = <<>>
    /\ discard_pile = <<"Lichen", "Micro-Mills">>
    /\ \E megacredits \in 0..MaxPurse, hand \in SeqsUpTo(OfferPool, 1) :
          players = [p \in PlayerIds |->
                       IF p = 1
                       THEN PlayerStateBuilder_build(
                                with_cards_in_hand(
                                    with_resources(PlayerStateBuilder_new(p),
                                                   ResourceMap(megacredits, 0, 0, 0, 0, 0)),
                                    hand))
                       ELSE DefaultPlayer(p)]
    /\ replay = [players |-> players, draw_deck |-> <<"Dust Seals">>,
                 discard_pile |-> <<"Micro-Mills">>]
    /\ aborted = FALSE
    /\ last_call = NoCall

NextSim ==
    \E p \in PlayerIds, offered_cards \in SeqsUpTo(OfferPool, MaxOffered) \cup LongOffers :
        last_call = NoCall /\ GetPossibleGenerationPlays(p, offered_cards)

SpecSim == InitSim /\ [][NextSim]_vars

(***************************************************************************)
(* SpecSearch: one call of get_possible_generation_plays taken step by     *)
(* step, on the players of SpecSim, with up to MaxSearchOffered offered     *)
(* cards or with ten.  FairSearch adds that a running call takes its next  *)
(* step: the search is sequential code without waits.                      *)
(***************************************************************************)
SearchSteps ==
    \/ NextVariation
    \/ EnterCall
    \/ ResumeCall
    \/ CollectPlays

NextSearch ==
    \/ \E p \in PlayerIds,
          offered_cards \in SeqsUpTo(OfferPool, MaxSearchOffered) \cup LongOffers :
          last_call = NoCall /\ BeginSearch(p, offered_cards)
    \/ NextVariation
    \/ EnterCall
    \/ ResumeCall
    \/ CollectPlays

SpecSearch == InitSim /\ [][NextSearch]_vars

FairSearch == SpecSearch /\ WF_vars(SearchSteps)

(***************************************************************************)
(* SpecPlace: one can_place_city call on any board MarsBoard::new accepts  *)
(* that holds at most MaxTiles tiles on the placement patch.               *)
(***************************************************************************)
\* What one location of a board given to MarsBoard::new may hold.
TileChoices(location) ==
    {[status |-> "Empty", kind |-> "None", owner |-> 0]}
        \cup [status : {"City"}, kind : {"RegularCity"}, owner : PlayerIds]
        \cup IF location.kind = "OffMars" THEN {}
             ELSE {[status |-> "Ocean", kind |-> "None", owner |-> 0]}
                    \cup [status : {"Greenery"}, kind : {"None"}, owner : PlayerIds]
                    \cup [status : {"SpecialTile"}, kind : SpecialTiles, owner : PlayerIds]

BoardOf(choice) ==
    LET At(status) == {l \in PlacementLocations : choice[l].status = status}
    IN  [cities |-> [l \in At("City") |-> [kind |-> choice[l].kind, owner |-> choice[l].owner]],
         oceans |-> {l.c : l \in At("Ocean")},
         greeneries |-> [c \in {l.c : l \in At("Greenery")} |-> choice[OnMars(c)].owner],
         special_tiles |-> [c \in {l.c : l \in At("SpecialTile")} |->
                              [kind |-> choice[OnMars(c)].kind, owner |-> choice[OnMars(c)].owner]],
         oxygen |-> 0, temperature |-> -30]

PlacedBoards ==
    {BoardOf(choice) : choice \in
        {ch \in [PlacementLocations -> UNION {TileChoices(l) : l \in PlacementLocations}] :
            /\ \A l \in PlacementLocations : ch[l] \in TileChoices(l)
            /\ Cardinality({l \in PlacementLocations : ch[l].status # "Empty"}) <= MaxTiles}}

\* Restriction lists of the single call: every list of length <= 1, and the
\* pairs over PairedRestrictions.
PairedRestrictions == {Restriction("NotNextToACity"), Restriction("AdjacentToOwnedTile")}

\* Lists where the soft restriction stands beside a hard one.
SoftRestrictionLists ==
    {<<Restriction("AdjacentToOwnedTileIfAble"), Restriction("LandTile")>>,
     <<Restriction("LandTile"), Restriction("AdjacentToOwnedTileIfAble")>>}

PlaceRestrictionLists ==
    SeqsUpTo(LocationRestrictions, 1) \cup SeqsUpTo(PairedRestrictions, MaxRestrictions)
        \cup SoftRestrictionLists

InitPlace ==
    /\ \E board \in PlacedBoards :
          /\ MarsBoard_new_accepts(board)
          /\ cities = board.cities
          /\ oceans = board.oceans
          /\ greeneries = board.greeneries
          /\ special_tiles = board.special_tiles
          /\ oxygen = board.oxygen
          /\ temperature = board.temperature
    /\ players = [p \in PlayerIds |-> DefaultPlayer(p)]
    /\ draw_deck = <<>>
    /\ discard_pile = <<>>
    /\ replay = CardZones
    /\ aborted = FALSE
    /\ last_call = NoCall

NextPlace ==
    \E p \in PlayerIds, l \in PlacementLocations, k \in CityKinds,
       rs \in PlaceRestrictionLists : last_call = NoCall /\ CanPlaceCity(p, l, k, rs)

SpecPlace == InitPlace /\ [][NextPlace]_vars

(***************************************************************************)
(* SpecGeneration: one advance_generation of a player built with balances  *)
(* and productions of every resource, with a card in hand and a card in    *)
(* play, after at most one terraform-rating step.                          *)
(***************************************************************************)
GenerationResources ==
    {ResourceMap(m, s, 1, p, e, h) : m \in {0, 1}, s \in {0, 1}, p \in {0, 1},
                                     e \in {0, 1}, h \in {0, 1}}

GenerationProductions ==
    {ResourceMap(m, s, t, 1, e, h) :
        m \in {-DEFAULT_STARTING_TERRAFORM_RATING, 1}, s \in {0, 1}, t \in {0, 1},
        e \in {0, 1}, h \in {0, 1}}

InitGeneration ==
    /\ cities = EmptyMap
    /\ oceans = {}
    /\ greeneries = EmptyMap
    /\ special_tiles = EmptyMap
    /\ oxygen = 0
    /\ temperature = -30
    /\ \E resources \in GenerationResources, production \in GenerationProductions :
          /\ with_production_accepts(production)
          /\ players = [p \in PlayerIds |->
                          IF p = 1
                          THEN PlayerStateBuilder_build(
                                   with_cards_in_hand(
                                       with_played_cards(
                                           with_production(
                                               with_resources(PlayerStateBuilder_new(p),
                                                              resources),
                                               production),
                                           <<"Development Center">>),
                                       <<"Micro-Mills">>))
                          ELSE DefaultPlayer(p)]
    /\ draw_deck = <<>>
    /\ discard_pile = <<>>
    /\ replay = CardZones
    /\ aborted = FALSE
    /\ last_call = NoCall

NextGeneration ==
    \/ \E p \in EconomyPlayers : last_call = NoCall /\ RaiseTerraformRating(p, 1)
    \/ \E p \in EconomyPlayers :
          last_call.op # "advance_generation" /\ AdvanceGeneration(p)

SpecGeneration == InitGeneration /\ [][NextGeneration]_vars

(***************************************************************************)
(* SpecScore: one get_total_victory_points call on the boards of the       *)
(* scoring tests (game.rs 669-815) and their variations: a city at (4, -5) *)
(* with up to three oceans and two greeneries next to it, a greenery and a *)
(* city elsewhere on Mars and a city on Ganymede.                          *)
(***************************************************************************)
ScoreCentre == OnMars(<<4, -5>>)

ScoreCentreCities ==
    {EmptyMap} \cup {MapInsert(EmptyMap, ScoreCentre, [kind |-> k, owner |-> p]) :
                        k \in CityKinds, p \in PlayerIds}

ScoreOtherCities ==
    {[l \in ls |-> IF l.kind = "OffMars" THEN [kind |-> "GanymedeColony", owner |-> 2]
                                         ELSE [kind |-> "RegularCity", owner |-> 1]] :
        ls \in SUBSET {OffMars("GanymedeColony"), OnMars(<<0, 0>>)}}

ScoreCities ==
    {[l \in (DOMAIN centre) \cup (DOMAIN others) |->
         IF l \in DOMAIN centre THEN centre[l] ELSE others[l]] :
        centre \in ScoreCentreCities, others \in ScoreOtherCities}

ScoreOceans == {{}, {<<5, -5>>}, {<<5, -5>>, <<5, -6>>}, {<<5, -5>>, <<5, -6>>, <<4, -4>>}}

ScoreGreeneries ==
    {[c \in {x \in DOMAIN owners : owners[x] # 0} |-> owners[c]] :
        owners \in {o \in [{<<3, -5>>, <<4, -6>>, <<8, -8>>} -> {0, 1, 2}] :
                       o[<<4, -6>>] # 1 /\ o[<<8, -8>>] # 2}}

ScorePlayedCards ==
    {<<>>,
     <<"Capital">>,
     <<"Ganymede Colony", "Water Import From Europa", "Methane From Titan", "Tundra Farming">>,
     <<"Immigration Shuttles">>,
     <<"Ganymede Colony", "Water Import From Europa", "Jovian Event Sample",
       "Jovian Pair Sample">>,
     <<"Jovian Pair Sample">>,
     <<"Tardigrades", "Security Fleet">>}

InitScore ==
    /\ cities \in ScoreCities
    /\ oceans \in ScoreOceans
    /\ greeneries \in ScoreGreeneries
    /\ special_tiles = EmptyMap
    /\ oxygen = 0
    /\ temperature = -30
    /\ MarsBoard_new_accepts(Board)
    /\ draw_deck = <<>>
    /\ discard_pile = <<>>
    /\ \E played_cards \in ScorePlayedCards, other_cards \in {<<>>, <<"Ganymede Colony">>} :
          players = [p \in PlayerIds |->
                       PlayerStateBuilder_build(
                           with_played_cards(PlayerStateBuilder_new(p),
                                             IF p = 1 THEN played_cards ELSE other_cards))]
    /\ replay = [players |-> players, draw_deck |-> draw_deck, discard_pile |-> discard_pile]
    /\ aborted = FALSE
    /\ last_call = NoCall

NextScore ==
    \E p \in PlayerIds : last_call = NoCall /\ GetTotalVictoryPoints(p)

SpecScore == InitScore /\ [][NextScore]_vars

(***************************************************************************)
(* Claims about the board.                                                 *)
(***************************************************************************)
\* What each restriction demands of a location (the restriction table of the
\* specification), stated over the neighbours' tile statuses and the space's
\* static data.  The soft restriction AdjacentToOwnedTileIfAble demands nothing.
NeighborStatuses(board, location) ==
    {get_tile_status(board, n) : n \in {neighbors_within_bounds(location)[i] :
                                          i \in DOMAIN neighbors_within_bounds(location)}}

NeighborCities(board, location) ==
    {st \in NeighborStatuses(board, location) : st.status = "City"}

RestrictionHolds(board, player_id, location, restriction) ==
    LET r == restriction.r
        space == spaces[location]
        HasDesignation(d) == \E i \in DOMAIN space.designations : space.designations[i] = d
    IN  CASE r = "LandTile" -> HasDesignation(Designation("Land", "None"))
          [] r = "ReservedForOcean" -> HasDesignation(Designation("ReservedForOcean", "None"))
          [] r = "OnSteelOrTitaniumPlacementBonus" ->
                \E i \in DOMAIN space.placement_bonus, n \in 0..2 :
                    space.placement_bonus[i] \in
                        {GainResource("Steel", n), GainResource("Titanium", n)}
          [] r = "AtSpecialLocation" -> HasDesignation(Designation("Special", restriction.s))
          [] r = "AdjacentToOwnedTile" ->
                \E st \in NeighborStatuses(board, location) :
                    st.status # "Empty" /\ st.owner = player_id
          [] r = "AdjacentToOwnedTileIfAble" -> TRUE
          [] r = "NotNextToAnyOtherTile" ->
                \A st \in NeighborStatuses(board, location) : st.status = "Empty"
          [] r = "NotNextToACity" -> Cardinality(NeighborCities(board, location)) = 0
          [] r = "NextToACity" -> Cardinality(NeighborCities(board, location)) >= 1
          [] r = "NextToAtLeastTwoCities" -> Cardinality(NeighborCities(board, location)) >= 2
          [] r = "NextToAGreenery" ->
                \E st \in NeighborStatuses(board, location) : st.status = "Greenery"

AllRestrictionsHold(board, call) ==
    \A i \in DOMAIN call.location_restrictions :
        RestrictionHolds(board, call.player_id, call.location, call.location_restrictions[i])

\* C1: no TileLocation is in more than one of the four occupancy indexes, in
\* every state reached by placement operations and can_place_city calls that
\* did not abort.
IndexesHolding(location) ==
    {name \in {"cities", "oceans", "greeneries", "special_tiles"} :
        \/ name = "cities" /\ location \in DOMAIN cities
        \/ name = "oceans" /\ location.kind = "OnMars" /\ location.c \in oceans
        \/ name = "greeneries" /\ location.kind = "OnMars" /\ location.c \in DOMAIN greeneries
        \/ name = "special_tiles" /\ location.kind = "OnMars"
              /\ location.c \in DOMAIN special_tiles}

C1_BoardExclusivity ==
    ~aborted => \A location \in DOMAIN spaces : Cardinality(IndexesHolding(location)) <= 1

\* C2: from a builder-constructed PlayerState, in every state reached by
\* ChangeResources, ChangeProduction, RaiseTerraformRating and
\* advance_generation calls that did not abort, every resource is >= 0, every
\* production but megacredits is >= 0, and megacredit production is
\* >= -terraform_rating.
C2_EconomyFloors ==
    ~aborted =>
        \A p \in DOMAIN players :
            /\ \A r \in Resources : players[p].resources[r] >= 0
            /\ \A r \in Resources \ {"Megacredits"} : players[p].production[r] >= 0
            /\ players[p].production["Megacredits"] >= -players[p].terraform_rating

AfterAdvanceGeneration ==
    last_call.op = "advance_generation" /\ last_call.result = "done"

\* C3 as stated: after a successful advance_generation the player's
\* tapped_active_cards is empty and the player's Energy is 0.
C3_EnergyZeroAfterGeneration ==
    AfterAdvanceGeneration =>
        /\ players[last_call.player_id].tapped_active_cards = {}
        /\ players[last_call.player_id].resources["Energy"] = 0

\* C3: after a successful advance_generation the player's tapped_active_cards
\* is empty and the player's Energy equals the player's energy production
\* (the prior Energy was converted to heat before production was added).
C3_EnergyIsProductionAfterGeneration ==
    AfterAdvanceGeneration =>
        /\ players[last_call.player_id].tapped_active_cards = {}
        /\ players[last_call.player_id].resources["Energy"] =
              players[last_call.player_id].production["Energy"]

\* A generation ended for a player who produces energy and held energy
\* before: the heat shows that the prior energy was converted.
C3_Witness ==
    /\ AfterAdvanceGeneration
    /\ players[last_call.player_id].production["Energy"] = 1
    /\ players[last_call.player_id].resources["Energy"] = 1
    /\ players[last_call.player_id].resources["Heat"] >= 2
    /\ players[last_call.player_id].tapped_active_cards = {}

\* C4: DrawCards(player, n) with n greater than the draw-deck size and
\* n <= deck size + discard-pile size performs exactly one reshuffle, adds
\* exactly n cards to the player's hand and does not abort.
C4_DeckExhaustionDrawsExactly ==
    [][LET call == last_call'
       IN  (call.op = "DrawCards" /\ call.count > Len(draw_deck)
              /\ call.count <= Len(draw_deck) + Len(discard_pile))
               => /\ call.result = "done"
                  /\ call.reshuffles = 1
                  /\ Len(players'[call.player_id].cards_in_hand) =
                        Len(players[call.player_id].cards_in_hand) + call.count]_vars

\* What the spec's requirement table demands of the board and the player.
RequirementSatisfied(player, board, requirement) ==
    CASE requirement.r = "MaxOxygen" -> board.oxygen <= requirement.n
      [] requirement.r = "MinOxygen" -> board.oxygen >= requirement.n
      [] requirement.r = "MaxTemperature" -> board.temperature <= requirement.n
      [] requirement.r = "MinTemperature" -> board.temperature >= requirement.n
      [] requirement.r = "MaxOceans" -> Cardinality(board.oceans) <= requirement.n
      [] requirement.r = "MinOceans" -> Cardinality(board.oceans) >= requirement.n
      [] requirement.r = "MinOwnedGreeneries" ->
            Cardinality({c \in DOMAIN board.greeneries :
                            board.greeneries[c] = player.player_id}) >= requirement.n
      [] requirement.r = "MinTags" ->
            Cardinality(UNION {{<<i, j>> : j \in {k \in DOMAIN Catalog[player.played_cards[i]].tags :
                                       Catalog[player.played_cards[i]].tags[k] = requirement.tag}} :
                               i \in {n \in DOMAIN player.played_cards :
                                         Catalog[player.played_cards[n]].kind # "Event"}})
                >= requirement.n
      [] requirement.r = "MinProduction" ->
            player.production[requirement.resource] >= requirement.n

AllRequirementsSatisfied(player, board, card) ==
    \A i \in DOMAIN card.requirements : RequirementSatisfied(player, board, card.requirements[i])

Affordable(player, cost) ==
    LET purse == player.resources["Megacredits"]
        steel == player.resources["Steel"] * player.steel_value
        titanium == player.resources["Titanium"] * player.titanium_value
    IN  CASE cost.class = "Megacredits" -> cost.amount <= purse
          [] cost.class = "Building" -> cost.amount <= purse + steel
          [] cost.class = "Space" -> cost.amount <= purse + titanium
          [] cost.class = "SpaceOrBuilding" -> cost.amount <= purse + steel + titanium
          [] OTHER -> FALSE

\* C6: can_play_card returns None if at least one requirement of the card is
\* not satisfied by the board and the player; when every requirement is
\* satisfied the result is Some exactly when the card is affordable.
C6_UnmetRequirementReturnsNone ==
    last_call.op = "can_play_card" =>
        LET player == players[last_call.player_id]
            card == Catalog[last_call.card]
        IN  IF AllRequirementsSatisfied(player, Board, card)
            THEN last_call.result = IF Affordable(player, card.cost) THEN "Some" ELSE "None"
            ELSE last_call.result = "None"

\* The cards of `offered` at the positions in `positions`, in offered order.
RECURSIVE SubList(_, _)
SubList(offered, positions) ==
    IF offered = <<>> THEN <<>>
    ELSE SubList(SubSeq(offered, 1, Len(offered) - 1), positions)
            \o (IF Len(offered) \in positions THEN <<offered[Len(offered)]>> ELSE <<>>)

AffordableSubsets(offered, megacredits) ==
    {SubList(offered, positions) :
        positions \in {ps \in SUBSET (DOMAIN offered) : 3 * Cardinality(ps) <= megacredits}}

\* C7: for n <= 10 offered cards the purchased-card subsets in the results of
\* get_possible_generation_plays are exactly the subsets S with 3 * |S| <= the
\* initial megacredit balance, and for each such subset the results hold the
\* all-pass leaf: no turns taken, final state equal to the state right after
\* the purchase.
C7_SearchCompleteness ==
    (last_call.op = "get_possible_generation_plays" /\ last_call.result = "done") =>
        LET initial == players[last_call.player_id]
            plays == last_call.plays
            affordable == AffordableSubsets(last_call.offered_cards,
                                            initial.resources["Megacredits"])
        IN  /\ {plays[k].purchased : k \in DOMAIN plays} = affordable
            /\ \A subset \in affordable :
                  \E k \in DOMAIN plays :
                      /\ plays[k].purchased = subset
                      /\ plays[k].turns = <<>>
                      /\ plays[k].final_state =
                            [initial EXCEPT
                                !.resources["Megacredits"] = @ - 3 * Len(subset),
                                !.cards_in_hand = @ \o subset]

\* C8: the Game and its replay, equal at the start and given the same
\* operations, are equal in every state of a run that did not abort.
C8_ReplayReproducesState ==
    ~aborted =>
        /\ replay.players = players
        /\ replay.draw_deck = draw_deck
        /\ replay.discard_pile = discard_pile

\* C5: a can_place_city call with a list in which at least one restriction is
\* violated at the location returns None and leaves the board unchanged.
C5_ViolatedRestrictionReturnsNone ==
    [][LET call == last_call'
       IN  (call.op = "can_place_city" /\ ~AllRestrictionsHold(Board, call))
               => (call.result = "None" /\ UNCHANGED boardVars)]_vars

\* C9: purchase_cards(cards) costs 3 megacredits per card.  If the balance is
\* below 3 * len(cards) it returns None and the player is unchanged; otherwise
\* it returns Some, the balance decreases by exactly 3 * len(cards), the cards
\* are appended to cards_in_hand in order and every other field, and every
\* other player, is unchanged.
C9_PurchaseCostsThreePerCard ==
    [][LET call == last_call'
           before == players[call.player_id]
           after == players'[call.player_id]
           price == 3 * Len(call.cards)
       IN  call.op = "purchase_cards" =>
              /\ \A p \in DOMAIN players \ {call.player_id} : players'[p] = players[p]
              /\ IF before.resources["Megacredits"] < price
                 THEN call.result = "None" /\ after = before
                 ELSE /\ call.result = "Some"
                      /\ after.resources["Megacredits"] = before.resources["Megacredits"] - price
                      /\ after.cards_in_hand = before.cards_in_hand \o call.cards
                      /\ \A r \in Resources \ {"Megacredits"} :
                            after.resources[r] = before.resources[r]
                      /\ [after EXCEPT !.resources = before.resources,
                                       !.cards_in_hand = before.cards_in_hand] = before]_vars

\* Two cards were bought with exactly the six megacredits they cost, by a
\* player who already held a card.
C9_Witness ==
    /\ last_call.op = "purchase_cards"
    /\ last_call.result = "Some"
    /\ Len(last_call.cards) = 2
    /\ Len(players[last_call.player_id].cards_in_hand) = 3
    /\ players[last_call.player_id].resources["Megacredits"] = 0

\* C10: for a list of the ten hard restrictions and a location that holds no
\* city, can_place_city returns Some iff every restriction of the list holds,
\* and None otherwise; on Some exactly one entry (city_kind, player_id) is added
\* to cities at the location and nothing else on the board changes.
HardRestrictionsOnly(call) ==
    \A i \in DOMAIN call.location_restrictions :
        call.location_restrictions[i].r # "AdjacentToOwnedTileIfAble"

C10_PlacesIffRestrictionsHold ==
    [][LET call == last_call'
       IN  (call.op = "can_place_city" /\ HardRestrictionsOnly(call)
              /\ call.location \notin DOMAIN cities)
               => /\ call.result = IF AllRestrictionsHold(Board, call) THEN "Some" ELSE "None"
                  /\ call.result = "Some" =>
                        /\ DOMAIN cities' = (DOMAIN cities) \cup {call.location}
                        /\ Cardinality(DOMAIN cities') = Cardinality(DOMAIN cities) + 1
                        /\ cities'[call.location] =
                              [kind |-> call.city_kind, owner |-> call.player_id]
                        /\ \A l \in DOMAIN cities : cities'[l] = cities[l]
                        /\ UNCHANGED <<oceans, greeneries, special_tiles, oxygen, temperature>>
                  /\ call.result = "None" => UNCHANGED boardVars]_vars

\* A city was placed between two cities, as NextToAtLeastTwoCities demands.
C10_Witness ==
    /\ last_call.op = "can_place_city"
    /\ last_call.result = "Some"
    /\ last_call.location_restrictions = <<Restriction("NextToAtLeastTwoCities")>>
    /\ Cardinality(DOMAIN cities) = 3

ContainsSoftRestriction(call) ==
    \E i \in DOMAIN call.location_restrictions :
        call.location_restrictions[i].r = "AdjacentToOwnedTileIfAble"

NoAdjacentOwnedTile(board, call) ==
    \A st \in NeighborStatuses(board, call.location) :
        st.status \in {"City", "Greenery", "SpecialTile"} => st.owner # call.player_id

\* C11: a can_place_city call whose list contains AdjacentToOwnedTileIfAble and
\* whose other restrictions hold, at an empty location with no adjacent tile
\* of the player, returns Some and places the city, without aborting.
C11_SoftRestrictionNeverBlocks ==
    [][LET call == last_call'
       IN  (call.op = "can_place_city" /\ ContainsSoftRestriction(call)
              /\ AllRestrictionsHold(Board, call)
              /\ IndexesHolding(call.location) = {}
              /\ NoAdjacentOwnedTile(Board, call))
               => /\ call.result = "Some"
                  /\ cities' = MapInsert(cities, call.location,
                                         [kind |-> call.city_kind, owner |-> call.player_id])]_vars

\* C12: a can_place_city call whose restrictions all pass at a location that
\* already holds a tile (a city, an ocean, a greenery or a special tile)
\* aborts, and no city is added on top of the tile.
C12_OccupiedLocationAborts ==
    [][LET call == last_call'
       IN  (call.op = "can_place_city" /\ AllRestrictionsHold(Board, call)
              /\ IndexesHolding(call.location) # {})
               => (call.result = "abort" /\ UNCHANGED boardVars)]_vars

\* C13: for a card whose requirements are all met and whose cost is of class
\* Megacredits, Building, Space or SpaceOrBuilding, can_play_card returns
\* Some(card.cost) exactly when the balance (with steel and titanium at the
\* player's values where the class admits them) covers the cost, None
\* otherwise, and the call changes neither the player nor the board.
C13_MetRequirementsPlayableIffAffordable ==
    [][LET call == last_call'
       IN  call.op = "can_play_card" =>
             LET player == players[call.player_id]
                 card == Catalog[call.card]
             IN  (AllRequirementsSatisfied(player, Board, card)
                    /\ card.cost.class \in PayableCostClasses)
                     => /\ call.result = IF Affordable(player, card.cost) THEN "Some" ELSE "None"
                        /\ UNCHANGED <<boardVars, gameVars>>]_vars

\* C14: can_play_card never aborts: for every card, player and board the
\* result is None or Some(cost).
C14_CanPlayCardNeverAborts ==
    last_call.op = "can_play_card" => (last_call.result \in {"None", "Some"} /\ ~aborted)

\* The status the priority order city, ocean, greenery, special tile gives a
\* location: the first index of that order holding it, Empty when none does
\* and for an off-Mars location without a city.
PriorityOrder == <<"cities", "oceans", "greeneries", "special_tiles">>

StatusOfIndex ==
    [cities |-> "City", oceans |-> "Ocean", greeneries |-> "Greenery",
     special_tiles |-> "SpecialTile"]

FirstIndexHolding(location) ==
    LET held == {i \in DOMAIN PriorityOrder : PriorityOrder[i] \in IndexesHolding(location)}
    IN  IF held = {} THEN "none"
        ELSE PriorityOrder[CHOOSE i \in held : \A j \in held : i <= j]

\* C15: get_tile_status(location) returns City when the location is in the
\* cities index, otherwise Empty for an off-Mars location, otherwise Ocean,
\* Greenery or SpecialTile after the first of the oceans, greeneries and
\* special_tiles indexes holding the coordinate, otherwise Empty, with the
\* owner and kind that index records; the call changes no state.
C15_TileStatusPriority ==
    [][LET call == last_call'
           first == FirstIndexHolding(call.location)
       IN  call.op = "get_tile_status" =>
             /\ call.status.location = call.location
             /\ call.status.status = IF first = "none" THEN "Empty" ELSE StatusOfIndex[first]
             /\ first = "cities" =>
                   /\ call.status.kind = cities[call.location].kind
                   /\ call.status.owner = cities[call.location].owner
             /\ first = "greeneries" => call.status.owner = greeneries[call.location.c]
             /\ first = "special_tiles" =>
                   /\ call.status.kind = special_tiles[call.location.c].kind
                   /\ call.status.owner = special_tiles[call.location.c].owner
             /\ UNCHANGED <<boardVars, gameVars>>]_vars

\* A get_tile_status call on a location that holds a city on top of an ocean.
C15_Witness ==
    /\ last_call.op = "get_tile_status"
    /\ {"cities", "oceans"} \subseteq IndexesHolding(last_call.location)
    /\ last_call.status.status = "City"

AdjacentOceans(board, location) ==
    Cardinality({st \in NeighborStatuses(board, location) : st.status = "Ocean"})

IsMegacreditGain(bonus) == bonus.impact = "GainResource" /\ bonus.resource = "Megacredits"

\* C16: get_placement_bonuses(location) returns the space's static bonus list
\* with 2 * k megacredits added, k the number of adjacent oceans: the first
\* GainResource(Megacredits, m) entry of the static list becomes
\* GainResource(Megacredits, m + 2 * k) and the length stays; without such
\* an entry GainResource(Megacredits, 2 * k) is appended, also for k = 0;
\* every other entry keeps its place.
C16_PlacementBonusesAddOceanMegacredits ==
    [][LET call == last_call'
       IN  (call.op = "get_placement_bonuses" /\ call.result = "done") =>
             LET static == call.placement_bonus
                 bonuses == call.bonuses
                 k == AdjacentOceans(Board, call.location)
                 gains == {i \in DOMAIN static : IsMegacreditGain(static[i])}
             IN  /\ IF gains # {}
                    THEN LET first == CHOOSE i \in gains : \A j \in gains : i <= j
                         IN  /\ Len(bonuses) = Len(static)
                             /\ bonuses[first]
                                  = GainResource("Megacredits", static[first].amount + 2 * k)
                             /\ \A i \in DOMAIN static \ {first} : bonuses[i] = static[i]
                    ELSE bonuses = static \o <<GainResource("Megacredits", 2 * k)>>
                 /\ UNCHANGED <<boardVars, gameVars>>]_vars

\* A call next to two oceans that coalesces into the first of two megacredit
\* entries.
C16_Witness ==
    /\ last_call.op = "get_placement_bonuses"
    /\ AdjacentOceans(Board, last_call.location) = 2
    /\ Len(last_call.placement_bonus) = 3
    /\ last_call.bonuses[2] = GainResource("Megacredits", 7)

AfterGetTotalVictoryPoints ==
    last_call.op = "get_total_victory_points" /\ last_call.result = "done"

NeighborLocations(location) ==
    {neighbors_within_bounds(location)[i] : i \in DOMAIN neighbors_within_bounds(location)}

\* Pairs of a city of the player and a neighbouring location whose tile has
\* the given status; capitals only when capitals_only.
CityNeighborPairs(player_id, status, capitals_only) ==
    UNION {{<<l, n>> : n \in {m \in NeighborLocations(l) :
                                get_tile_status(Board, m).status = status}} :
              l \in {c \in DOMAIN cities :
                        /\ cities[c].owner = player_id
                        /\ capitals_only => cities[c].kind = "Capital"}}

\* C17: in get_total_victory_points every city of the player scores 1 point
\* per adjacent greenery of any owner, a Capital 1 more per adjacent ocean,
\* other cities nothing for oceans, every greenery of the player 1 point, and
\* the cities of other players nothing: the total exceeds the terraform
\* rating and the card points by exactly these tile points.
C17_CityAdjacencyScoring ==
    AfterGetTotalVictoryPoints =>
        LET p == last_call.player_id
            points == last_call.points
            greenery_pairs == CityNeighborPairs(p, "Greenery", FALSE)
            capital_ocean_pairs == CityNeighborPairs(p, "Ocean", TRUE)
            own_greeneries == {c \in DOMAIN greeneries : greeneries[c] = p}
        IN  /\ points.city_points
                  = Cardinality(greenery_pairs) + Cardinality(capital_ocean_pairs)
            /\ points.greenery_points = Cardinality(own_greeneries)
            /\ points.total - players[p].terraform_rating - sum(points.per_card)
                  = Cardinality(greenery_pairs) + Cardinality(capital_ocean_pairs)
                      + Cardinality(own_greeneries)

\* The capital of the scoring test: 3 oceans and 2 greeneries of the other
\* player next to the Capital of player 1, who scores 5 on top of the rating.
C17_Witness ==
    /\ AfterGetTotalVictoryPoints
    /\ last_call.player_id = 1
    /\ ScoreCentre \in DOMAIN cities
    /\ cities[ScoreCentre] = [kind |-> "Capital", owner |-> 1]
    /\ Cardinality(oceans) = 3
    /\ greeneries = MapInsert(MapInsert(EmptyMap, <<3, -5>>, 2), <<4, -6>>, 2)
    /\ players[1].played_cards = <<"Capital">>
    /\ last_call.points.total = DEFAULT_STARTING_TERRAFORM_RATING + 5

\* Number of `tag` tags over the played cards that are not events.
NonEventTagCount(player, tag) ==
    Cardinality({<<i, j>> \in (DOMAIN player.played_cards) \X (1..3) :
                    /\ Catalog[player.played_cards[i]].kind # "Event"
                    /\ j \in DOMAIN Catalog[player.played_cards[i]].tags
                    /\ Catalog[player.played_cards[i]].tags[j] = tag})

\* C18: in get_total_victory_points a played card with PerTag(vp, count, tag)
\* contributes floor(N / count) * vp, N the number of `tag` tags over all
\* played non-Event cards, the scoring card included; a card with
\* Immediate(x) contributes x; the total is terraform_rating plus the sum
\* over the played cards plus the tile points.
C18_TagScoring ==
    AfterGetTotalVictoryPoints =>
        LET player == players[last_call.player_id]
            points == last_call.points
        IN  /\ \A i \in DOMAIN player.played_cards :
                  LET card == Catalog[player.played_cards[i]]
                  IN  /\ (card.points # <<>> /\ card.points[1].v = "PerTag") =>
                            points.per_card[i]
                              = (NonEventTagCount(player, card.points[1].tag)
                                     \div card.points[1].count) * card.points[1].vp
                      /\ (card.points # <<>> /\ card.points[1].v = "Immediate") =>
                            points.per_card[i] = card.points[1].vp
            /\ points.total = player.terraform_rating + sum(points.per_card)
                                + points.greenery_points + points.city_points

\* Three Jovian tags in play and one more on a played event: the cards with
\* 1 point per Jovian tag score 3, the card with 3 points per 2 Jovian tags
\* scores 3, the event its immediate point.
C18_Witness ==
    /\ AfterGetTotalVictoryPoints
    /\ players[last_call.player_id].played_cards
          = <<"Ganymede Colony", "Water Import From Europa", "Jovian Event Sample",
              "Jovian Pair Sample">>
    /\ last_call.points.per_card = <<3, 3, 1, 3>>

CitiesOf(owner, kind) ==
    {l \in DOMAIN cities : cities[l].owner = owner /\ l.kind = kind}

\* C19: a played card with PerNCities(n) scores floor(C / n), C the number of
\* cities on the board over every owner, on Mars and off Mars.
C19_PerNCitiesCountsAllCities ==
    AfterGetTotalVictoryPoints =>
        LET player == players[last_call.player_id]
            C == sum([p \in 1..Cardinality(PlayerIds) |->
                        Cardinality(CitiesOf(p, "OnMars")) + Cardinality(CitiesOf(p, "OffMars"))])
        IN  \A i \in DOMAIN player.played_cards :
                LET card == Catalog[player.played_cards[i]]
                IN  (card.points # <<>> /\ card.points[1].v = "PerNCities") =>
                        last_call.points.per_card[i] = C \div card.points[1].count

\* Immigration Shuttles of player 1 with three cities on the board, one of
\* them on Ganymede and owned by player 2.
C19_Witness ==
    /\ AfterGetTotalVictoryPoints
    /\ last_call.player_id = 1
    /\ players[1].played_cards = <<"Immigration Shuttles">>
    /\ Cardinality(DOMAIN cities) = 3
    /\ OffMars("GanymedeColony") \in DOMAIN cities
    /\ last_call.points.per_card = <<1>>

\* C20: a successful advance_generation moves all energy to heat, adds the
\* terraform rating to the megacredits and then adds every production:
\* heat = old heat + old energy + heat production, energy = energy production,
\* megacredits = old megacredits + terraform_rating + megacredit production,
\* steel, titanium and plants = old value + production; production,
\* terraform_rating, hand and played cards are unchanged.
C20_GenerationStepOrder ==
    [][LET call == last_call'
       IN  (call.op = "advance_generation" /\ call.result = "done") =>
             LET old == players[call.player_id]
                 new == players'[call.player_id]
             IN  /\ new.resources["Heat"] = old.resources["Heat"] + old.resources["Energy"]
                                              + old.production["Heat"]
                 /\ new.resources["Energy"] = old.production["Energy"]
                 /\ new.resources["Megacredits"] = old.resources["Megacredits"]
                                                     + old.terraform_rating
                                                     + old.production["Megacredits"]
                 /\ \A r \in {"Steel", "Titanium", "Plants"} :
                       new.resources[r] = old.resources[r] + old.production[r]
                 /\ new.production = old.production
                 /\ new.terraform_rating = old.terraform_rating
                 /\ new.cards_in_hand = old.cards_in_hand
                 /\ new.played_cards = old.played_cards]_vars

\* A generation ended for a player with rating 21 who produces one of every
\* resource and held one energy, one heat and one steel before.
C20_Witness ==
    /\ AfterAdvanceGeneration
    /\ LET player == players[last_call.player_id]
       IN  /\ player.terraform_rating = DEFAULT_STARTING_TERRAFORM_RATING + 1
           /\ \A r \in Resources : player.production[r] = 1
           /\ player.resources["Heat"] = 3
           /\ player.resources["Energy"] = 1
           /\ player.resources["Steel"] = 2
           /\ player.resources["Megacredits"] = 23
           /\ player.played_cards # <<>> /\ player.cards_in_hand # <<>>

C22_OfferCap ==
    last_call.op = "get_possible_generation_plays" =>
        LET offered == last_call.offered_cards
        IN  IF Len(offered) > 10
            THEN /\ last_call.result = "abort"
                 /\ last_call.considered = <<>>
                 /\ last_call.plays = <<>>
            ELSE /\ last_call.result = "done"
                 /\ Len(last_call.considered) = 2 ^ Len(offered)
                 /\ {last_call.considered[k] : k \in DOMAIN last_call.considered}
                       = {SubList(offered, ps) : ps \in SUBSET (DOMAIN offered)}

\* Both sides of the cap: a call with eleven cards aborted, or a call with
\* ten different cards went through 1024 subsets.
C22_Witness ==
    /\ last_call.op = "get_possible_generation_plays"
    /\ Len(last_call.offered_cards) = 10
    /\ Len(last_call.considered) = 1024
    /\ Cardinality({last_call.considered[k] : k \in DOMAIN last_call.considered}) = 1024

\* C23: a player with fewer than 3 megacredits and an empty hand gets exactly
\* one result from get_possible_generation_plays on any offer of at most 10
\* cards: nothing purchased, no turns, the final state equal to the initial
\* state.
C23_NoBuysNoPlays ==
    (/\ last_call.op = "get_possible_generation_plays"
     /\ Len(last_call.offered_cards) <= 10
     /\ players[last_call.player_id].resources["Megacredits"] < CARD_PURCHASE_COST
     /\ players[last_call.player_id].cards_in_hand = <<>>)
        => /\ last_call.result = "done"
           /\ last_call.plays = <<[purchased |-> <<>>, turns |-> <<>>,
                                   final_state |-> players[last_call.player_id]]>>

\* The scenario of the test: 2 megacredits, an empty hand and offered cards.
C23_Witness ==
    /\ last_call.op = "get_possible_generation_plays"
    /\ Len(last_call.offered_cards) >= 3
    /\ players[last_call.player_id].resources["Megacredits"] = 2
    /\ players[last_call.player_id].cards_in_hand = <<>>
    /\ Len(last_call.plays) = 1

\* The location is in one of the four occupancy indexes of the board.
InAnyIndex(board, location) ==
    \/ location \in DOMAIN board.cities
    \/ /\ location.kind = "OnMars"
       /\ location.c \in board.oceans \cup DOMAIN board.greeneries
                            \cup DOMAIN board.special_tiles

PlacementOperations == {"PlaceCityTile", "PlaceGreenery", "PlaceSpecialTile", "PlaceOcean"}

C25_GlobalParameterCeilings ==
    [][LET call == last_call'
       IN  /\ oxygen' <= MAX_OXYGEN
           /\ temperature' <= MAX_TEMPERATURE
           /\ call.op = "RaiseTemperature" =>
                 /\ oxygen' = oxygen
                 /\ IF temperature = MAX_TEMPERATURE
                    THEN call.result = "abort" /\ temperature' = temperature
                    ELSE /\ call.result = "done"
                         /\ temperature' = temperature + TEMPERATURE_INCREMENT
           /\ call.op = "RaiseOxygen" =>
                 /\ temperature' = temperature
                 /\ IF oxygen = MAX_OXYGEN
                    THEN call.result = "abort" /\ oxygen' = oxygen
                    ELSE /\ call.result = "done"
                         /\ oxygen' = oxygen + OXYGEN_INCREMENT]_vars

\* RaiseTemperature aborted at the temperature ceiling after the oxygen
\* was raised to its own ceiling.
C25_Witness ==
    /\ last_call.op = "RaiseTemperature"
    /\ last_call.result = "abort"
    /\ temperature = MAX_TEMPERATURE
    /\ oxygen = MAX_OXYGEN

\* C26: DrawCards(player, n) aborts exactly when n exceeds the size of the
\* draw deck plus the size of the discard pile, and completes otherwise.
C26_DrawAbortsOnlyWhenCardsRunOut ==
    [][LET call == last_call'
       IN  (call.op = "DrawCards" /\ replay = CardZones)
               => (call.result = "abort"
                      <=> call.count > Len(draw_deck) + Len(discard_pile))]_vars

\* How often the card occurs in the list.
Occurrences(cards, card) == Cardinality({i \in DOMAIN cards : cards[i] = card})

\* All that the step may change of the players is in `player_id`'s
\* cards_in_hand and played_cards.
OnlyCardsOfPlayerChange(player_id) ==
    /\ \A p \in DOMAIN players \ {player_id} : players'[p] = players[p]
    /\ players'[player_id] =
          [players[player_id] EXCEPT !.cards_in_hand = players'[player_id].cards_in_hand,
                                     !.played_cards = players'[player_id].played_cards]

\* C27: PutCardIntoPlay(player, card) with the card in the player's hand,
\* also when the hand holds another copy of it, takes exactly one copy out of
\* the hand and appends the card to played_cards; with the card not in the
\* hand it aborts; no other player and no board field changes.
C27_PutCardIntoPlayMovesOneCopy ==
    [][LET call == last_call'
           hand == players[call.player_id].cards_in_hand
           new_hand == players'[call.player_id].cards_in_hand
       IN  (call.op = "PutCardIntoPlay" /\ replay = CardZones)
               => /\ UNCHANGED boardVars
                  /\ IF call.played_card \in Range(hand)
                     THEN /\ call.result = "done"
                          /\ \A card \in CardNames :
                                Occurrences(new_hand, card) =
                                    Occurrences(hand, card)
                                        - (IF card = call.played_card THEN 1 ELSE 0)
                          /\ players'[call.player_id].played_cards =
                                Append(players[call.player_id].played_cards, call.played_card)
                          /\ OnlyCardsOfPlayerChange(call.player_id)
                     ELSE call.result = "abort" /\ UNCHANGED players]_vars

\* C28: DiscardCards(player, D) with every card of D in the player's hand
\* (as many copies as D lists) takes exactly the cards of D out of the hand,
\* one copy each, and appends D to the discard pile; with a card of D that
\* is not in the hand it aborts.
C28_DiscardMovesOneCopyEach ==
    [][LET call == last_call'
           hand == players[call.player_id].cards_in_hand
           new_hand == players'[call.player_id].cards_in_hand
       IN  (call.op = "DiscardCards" /\ replay = CardZones)
               => /\ (\A card \in Range(call.discard) :
                         Occurrences(call.discard, card) <= Occurrences(hand, card))
                        => /\ call.result = "done"
                           /\ \A card \in CardNames :
                                 Occurrences(new_hand, card) =
                                     Occurrences(hand, card) - Occurrences(call.discard, card)
                           /\ discard_pile' = discard_pile \o call.discard
                  /\ (\E card \in Range(call.discard) : card \notin Range(hand))
                        => call.result = "abort"]_vars

\* C29: ChangeCardResource(player, card, kind, delta) aborts unless
\* card.supports_card_resource() is Some(kind), and aborts when the quantity
\* would become negative, a negative delta on a card without an entry
\* included; otherwise the quantity stored for (card, kind) becomes the old
\* quantity (0 without an entry) plus delta and nothing else changes; every
\* stored quantity is at least 0.
C29_CardResourceChange ==
    [][LET call == last_call'
           key == <<call.card, call.card_resource>>
           stored == players[call.player_id].card_resources
           old == IF key \in DOMAIN stored THEN stored[key] ELSE 0
           supported == /\ ~supports_card_resource_panics(Catalog[call.card])
                        /\ supports_card_resource(Catalog[call.card]) = <<call.card_resource>>
       IN  (call.op = "ChangeCardResource" /\ replay.players = players)
               => /\ IF supported /\ old + call.amount >= 0
                     THEN /\ call.result = "done"
                          /\ players' =
                                [players EXCEPT ![call.player_id].card_resources =
                                    [k \in DOMAIN stored \cup {key} |->
                                        IF k = key THEN old + call.amount ELSE stored[k]]]
                     ELSE call.result = "abort" /\ players' = players
                  /\ \A p \in DOMAIN players' :
                        \A k \in DOMAIN players'[p].card_resources :
                            players'[p].card_resources[k] >= 0
                  /\ UNCHANGED <<boardVars, draw_deck, discard_pile>>]_vars

\* A negative delta was refused on a card that supports the resource and has
\* no entry yet, while another entry of the same player stands at 0.
C29_Witness ==
    /\ last_call.op = "ChangeCardResource"
    /\ last_call.result = "abort"
    /\ last_call.amount < 0
    /\ supports_card_resource(Catalog[last_call.card]) = <<last_call.card_resource>>
    /\ <<last_call.card, last_call.card_resource>>
          \notin DOMAIN players[last_call.player_id].card_resources
    /\ \E k \in DOMAIN players[last_call.player_id].card_resources :
          players[last_call.player_id].card_resources[k] = 0

\* C30: ResetCardActions empties the tapped_active_cards set of every player
\* and leaves every other field of every player, the board, the draw deck
\* and the discard pile unchanged.
C30_ResetCardActionsFrame ==
    [][LET call == last_call'
       IN  call.op = "ResetCardActions"
               => /\ call.result = "done"
                  /\ players' = [p \in DOMAIN players |->
                                    [players[p] EXCEPT !.tapped_active_cards = {}]]
                  /\ UNCHANGED <<boardVars, draw_deck, discard_pile>>]_vars

\* ResetCardActions found tapped cards with both players, after the first
\* player's resources or production had been changed.
C30_Witness ==
    /\ last_call.op = "ResetCardActions"
    /\ \A p \in DOMAIN last_call.tapped : last_call.tapped[p] # {}
    /\ \A p \in DOMAIN players : players[p].tapped_active_cards = {}
    /\ players[1].resources["Megacredits"] > 0

\* C31: asked with the Event tag both tag counts abort; asked with another
\* tag t, active_tag_count is the number of t tags on the played cards that
\* are not events, and for t other than Wild active_tag_count_for_action is
\* that number plus the number of Wild tags on the played cards that are not
\* events.
C31_WildTagsCountForActions ==
    last_call.op = "active_tag_count" =>
        LET player == players[last_call.player_id]
            tag == last_call.tag_kind
        IN  IF tag = "Event"
            THEN last_call.result = "abort"
            ELSE /\ last_call.result = "done"
                 /\ last_call.count = NonEventTagCount(player, tag)
                 /\ tag # "Wild" =>
                       last_call.count_for_action =
                           last_call.count + NonEventTagCount(player, "Wild")

\* The Science tags of a player who played the card with a Wild tag, an event
\* with a Wild tag and a card with a Science tag were counted.
C31_Witness ==
    /\ last_call.op = "active_tag_count"
    /\ last_call.tag_kind = "Science"
    /\ players[1].played_cards = <<"Wild Event Sample", "Wild Tag Sample", "Regolith Eaters">>
    /\ last_call.player_id = 1
    /\ last_call.count = 2
    /\ last_call.count_for_action = 3

\* The ranges of the claim, in numbers.
InBoardRanges(c) ==
    /\ 0 <= c[1] /\ c[1] <= 8
    /\ -8 <= c[2] /\ c[2] <= 0
    /\ -4 <= -(c[1] + c[2]) /\ -(c[1] + c[2]) <= 4

\* The six offsets of the claim, in their order.
SixOffsets == << <<1, -1>>, <<0, -1>>, <<-1, 0>>, <<-1, 1>>, <<0, 1>>, <<1, 0>> >>

\* C32: is_in_bounds(x, y) holds iff 0 <= x <= 8, -8 <= y <= 0 and
\* -4 <= -(x + y) <= 4; the neighbors of a location on Mars are the
\* coordinates moved by the six offsets, in that order, those out of bounds
\* left out, so at most 6 and each in bounds; a location off Mars has no
\* neighbors and its adjacent-ocean count is 0.
C32_BoardGeometry ==
    last_call.op = "neighbors_within_bounds" =>
        LET location == last_call.location
            moved == [i \in 1..6 |-> OnMars(<<location.c[1] + SixOffsets[i][1],
                                              location.c[2] + SixOffsets[i][2]>>)]
            InRanges(l) == InBoardRanges(l.c)
        IN  IF location.kind = "OnMars"
            THEN /\ last_call.in_bounds <=> InBoardRanges(location.c)
                 /\ last_call.neighbors = SelectSeq(moved, InRanges)
                 /\ Len(last_call.neighbors) <= 6
                 /\ \A i \in DOMAIN last_call.neighbors :
                       /\ last_call.neighbors[i].kind = "OnMars"
                       /\ InBoardRanges(last_call.neighbors[i].c)
                 /\ last_call.adjacent_oceans =
                       Cardinality({i \in DOMAIN last_call.neighbors :
                                       last_call.neighbors[i].c \in oceans})
            ELSE /\ last_call.neighbors = <<>>
                 /\ last_call.adjacent_oceans = 0

\* The corner (0, 0) was asked about with two oceans next to it: three of the
\* six moves stay on the board.
C32_Witness ==
    /\ last_call.op = "neighbors_within_bounds"
    /\ last_call.location = OnMars(<<0, 0>>)
    /\ last_call.in_bounds
    /\ last_call.neighbors = <<OnMars(<<1, -1>>), OnMars(<<0, -1>>), OnMars(<<1, 0>>)>>
    /\ last_call.adjacent_oceans = 2

C34_AdvanceGenerationNeverAborts ==
    [][LET call == last_call'
       IN  call.op = "advance_generation" => call.result = "done"]_vars

\* advance_generation has completed for a player on the floor, with a
\* production of exactly -terraform_rating and no megacredits left, after
\* the rating was raised and the production lowered to follow it.
C34_Witness ==
    /\ AfterAdvanceGeneration
    /\ \E p \in EconomyPlayers :
          /\ players[p].terraform_rating > DEFAULT_STARTING_TERRAFORM_RATING
          /\ players[p].production["Megacredits"] = -players[p].terraform_rating
          /\ players[p].resources["Megacredits"] = 0

\* How often the card occurs in the draw deck, the discard pile and the
\* hands and played cards of all players together.
CopiesInGame(deck, pile, states, card) ==
    LET RECURSIVE held(_)
        held(ids) ==
            IF ids = {} THEN 0
            ELSE LET p == CHOOSE id \in ids : TRUE
                 IN  Occurrences(states[p].cards_in_hand, card)
                         + Occurrences(states[p].played_cards, card)
                         + held(ids \ {p})
    IN  Occurrences(deck, card) + Occurrences(pile, card) + held(DOMAIN states)

\* C35: a DrawCards, DiscardCards or PutCardIntoPlay that does not abort
\* leaves the multiset union of the draw deck, the discard pile, all hands
\* and all played cards unchanged: no card is duplicated or lost, also
\* across a reshuffle.
C35_CardConservation ==
    [][LET call == last_call'
       IN  (call.op \in {"DrawCards", "DiscardCards", "PutCardIntoPlay"}
               /\ call.result = "done")
               => \A card \in CardNames :
                     CopiesInGame(draw_deck', discard_pile', players', card) =
                         CopiesInGame(draw_deck, discard_pile, players, card)]_vars

\* C36: tiles are permanent: once get_tile_status(location) is not Empty,
\* every later state reached without an abort by execute_operation and
\* can_place_city calls gives the same status for the location, with the
\* same kind and the same owner.
C36_TilesArePermanent ==
    [][LET board_after == [cities |-> cities', oceans |-> oceans',
                           greeneries |-> greeneries',
                           special_tiles |-> special_tiles',
                           oxygen |-> oxygen', temperature |-> temperature']
       IN  ~aborted' =>
               \A location \in PlacementLocations :
                   get_tile_status(Board, location).status # "Empty"
                       => get_tile_status(board_after, location) =
                              get_tile_status(Board, location)]_vars

\* C37: across any sequence of GameOperations and advance_generation calls,
\* each player's terraform_rating, the board's oxygen, the board's
\* temperature and the number of oceans never decrease.
C37_MonotoneProgress ==
    [][/\ \A p \in DOMAIN players :
             players'[p].terraform_rating >= players[p].terraform_rating
       /\ oxygen' >= oxygen
       /\ temperature' >= temperature
       /\ Cardinality(oceans') >= Cardinality(oceans)]_vars

\* All four have moved up from their starting values, and an
\* advance_generation has run on top of them.
C37_Witness ==
    /\ AfterAdvanceGeneration
    /\ \E p \in DOMAIN players :
          players[p].terraform_rating > DEFAULT_STARTING_TERRAFORM_RATING
    /\ oxygen > 0
    /\ temperature > -30
    /\ Cardinality(oceans) > 1

\* C38: in every state reached from PlayerStateBuilder::build by
\* execute_operation, PutCardIntoPlay and AddEffect of an
\* IncreasedMetalsValue effect included, steel_value is 2 plus the sum of the
\* IncreasedMetalsValue increases in the player's effects, titanium_value is
\* 3 plus the same sum, and the effects list holds the effects of every
\* played card.
C38_MetalValuesFollowEffects ==
    ~aborted =>
        \A p \in DOMAIN players :
            /\ players[p].steel_value =
                   DEFAULT_STEEL_VALUE + metals_value_increase(players[p].effects)
            /\ players[p].titanium_value =
                   DEFAULT_TITANIUM_VALUE + metals_value_increase(players[p].effects)
            /\ \A card \in Range(players[p].played_cards) :
                   Range(Catalog[card].effects) \subseteq Range(players[p].effects)

\* The leaves of a search that, from hand position `index` (counted from 0)
\* on, both plays and skips every card play_card accepts and skips every
\* other card: the turns taken and the final state of each combination.
RECURSIVE PlayOrSkipLeaves(_, _)
PlayOrSkipLeaves(state, index) ==
    IF index >= Len(state.cards_in_hand)
    THEN {[turns |-> <<>>, final_state |-> state]}
    ELSE LET card == state.cards_in_hand[index + 1]
             played == play_card(state, index)
             skipped == PlayOrSkipLeaves(state, index + 1)
         IN  IF played.result = "None" THEN skipped
             ELSE skipped \cup
                      {[turns |-> <<PlayCard(card)>> \o leaf.turns,
                        final_state |-> leaf.final_state] :
                          leaf \in PlayOrSkipLeaves(played.state, index)}

\* The state right after the purchase of the cards.
AfterPurchase(initial, purchased) ==
    [initial EXCEPT !.resources["Megacredits"] = @ - CARD_PURCHASE_COST * Len(purchased),
                    !.cards_in_hand = @ \o purchased]

\* C39: for each affordable purchase subset the results of
\* get_possible_generation_plays hold one triple per play-or-skip
\* combination over the playable cards in hand, and the purchased-cards list
\* of every triple is the subset bought on the branch that led to the
\* triple's turns and final state.
C39_PlayAndSkipExplored ==
    (last_call.op = "get_possible_generation_plays" /\ last_call.result = "done") =>
        LET initial == players[last_call.player_id]
            plays == last_call.plays
            affordable == AffordableSubsets(last_call.offered_cards,
                                            initial.resources["Megacredits"])
        IN  /\ \A subset \in affordable :
                  \A leaf \in PlayOrSkipLeaves(AfterPurchase(initial, subset), 0) :
                      \E k \in DOMAIN plays :
                          /\ plays[k].purchased = subset
                          /\ plays[k].turns = leaf.turns
                          /\ plays[k].final_state = leaf.final_state
            /\ \A k \in DOMAIN plays :
                  /\ plays[k].purchased \in affordable
                  /\ \E leaf \in PlayOrSkipLeaves(AfterPurchase(initial, plays[k].purchased), 0) :
                         /\ plays[k].turns = leaf.turns
                         /\ plays[k].final_state = leaf.final_state

SearchReturned == last_call.op = "search" /\ last_call.result = "done"

\* C40: for every initial state with a finite hand and at most 10 offered
\* cards get_possible_generation_plays eventually returns; the caller's
\* initial state is unchanged; and every call of
\* make_all_possible_plays_recursively returns with
\* next_card_index_to_consider equal to its value on entry.
C40_SearchTerminatesUndisturbed ==
    /\ SearchRunning ~> SearchReturned
    /\ [](last_call.op = "search" =>
             /\ players[last_call.player_id] = last_call.state_on_entry
             /\ \A i \in DOMAIN last_call.returned :
                    last_call.returned[i].returned_with = last_call.returned[i].entered_with)

\* A search over ten offered cards has returned, with a result in which a
\* purchased card was played, two frames deep in the recursion.
C40_Witness ==
    /\ SearchReturned
    /\ Len(last_call.offered_cards) = 10
    /\ \E k \in DOMAIN last_call.plays :
          /\ last_call.plays[k].turns # <<>>
          /\ last_call.plays[k].purchased # <<>>
====
